---- MODULE Spec2Model ----
(***************************************************************************)
(* A model of the aurora web scraper's acquisition core: the scroll        *)
(* drivers of scraper_core.py, the product extractor and its vision        *)
(* fallback (universal_product_extractor.py), the page loops of            *)
(* complete_page_scraper.py and main_scraper.py, the pagination handler    *)
(* (pagination_handler.py) and the text oracle parser (ai_parser.py).      *)
(*                                                                         *)
(* Each subsystem is one sequential flow.  The module gives one            *)
(* specification per group of flows (SpecScroll: the scroll drivers;       *)
(* SpecExtract: a request of main() and the text oracle parser; SpecOrch:  *)
(* the two page loops; SpecFront: the tasks of the web front end;          *)
(* SpecRender: an extraction followed into the renderer of                 *)
(* backend_proxy.py; SpecAll: scrape_all_pages and scrape_site;            *)
(* SpecFunctions: the classifiers, the container parser, the rating        *)
(* extractors, the API pager and the page urls applied to bounded inputs;  *)
(* SpecSwo: repeated calls of scrape_with_ocr; SpecLoops: the four page    *)
(* loops; SpecWorker and SpecQueueFair: the front end's worker and queue   *)
(* with the extractor as one call); the variables of the other             *)
(* flows stay at their initial values.  What the browser, the renderer,    *)
(* the operator at the prompt and the oracle answer is chosen with \E at   *)
(* the step that asks.                                                     *)
(***************************************************************************)
EXTENDS Integers, Sequences, FiniteSets

None == "None"

\* ------------------------------------------------------------------------
\* Bounds of the model
\* ------------------------------------------------------------------------
MaxHeight == 2        \* document heights and scroll offsets, in viewports
MaxNumPages == 3      \* num_pages given to extract_products
MaxPagesArg == 4      \* max_pages given to the page loops
MaxReplyLen == 2      \* objects in one oracle reply
MaxSitePages == 2     \* max_pages given to scrape_site
MaxItems == 1         \* content items on one page of scrape_site
MaxApiPage == 2       \* page numbers in API pagination metadata
MaxClock == 1         \* seconds the clock of the front end advances
MaxRequests == 2      \* start_scraping calls
MaxTaskPages == 1     \* max_pages of a front-end request
MaxRenderPages == 2   \* num_pages of a request followed into the renderer
MaxShortDoc == 2      \* containers of a page, all kinds of container
MaxLongDoc == 7       \* containers of a page of like containers
NumSelectors == 2      \* selectors of product_selectors told apart
NumRatingPatterns == 2 \* rating patterns told apart
MaxMatches == 2       \* matches of one rating pattern
MaxCalls == 2         \* calls of scrape_with_ocr in one working directory
MaxPageParam == 2     \* largest value of a query parameter of a url
MaxQueryLen == 2      \* parameters in the query string of a url

\* ------------------------------------------------------------------------
\* Program constants
\* ------------------------------------------------------------------------
MaxRetries == 3       \* attempts of the renderer for one request
MaxScrolls == 50      \* scroll ceiling of both scroll drivers
GoodNumber == 5       \* "a good number" of containers for one selector
ProductLimit == 30    \* containers turned into records on one page
RatingCeiling == 10   \* highest rating _extract_ratings_universal keeps
RatingLimit == 20     \* ratings _extract_ratings_universal returns

VARIABLES
    \* scroll driver (scraper_core.py)
    driver,             \* "playwright" | "selenium"
    sd_pc,              \* "start" | "scroll" | "grace" | "limit" | "done"
    scroll_count,
    screenshots_taken,
    new_height,
    final_height,
    mark,               \* <<scroll_count, screenshots_taken>> when growth was last seen
    cycle,              \* <<scrolls, screenshots>> done between growth and the next bottom test
    growths             \* grace waits of this run after which the height had grown

VARIABLES
    \* one extraction request (universal_product_extractor.py)
    entry,              \* the flow of this behaviour: "scroll", "main", "ai", "cps", "site"
    is_travel,          \* _is_travel_site(domain of the url)
    url_page,           \* page parameter carried by the url given to extract_products, 0 if none
    num_pages,
    ep_pc,              \* extract_products: "idle" | "loop" | "summary" | "ocr" | "returned"
    page_num,
    ep_products,        \* all_products of extract_products
    ep_result,          \* None, a summary, or "raised"
    ocr_pc,             \* extract_with_ocr_fallback: "idle" | "loop" | "summary" | "returned"
    ocr_from,           \* "extract" | "main"
    ocr_page,
    ocr_products,       \* all_products of extract_with_ocr_fallback
    ocr_result,         \* None or a summary
    ocr_reply,          \* the oracle's reply to the last screenshot
    ocr_calls,          \* invocations of extract_with_ocr_fallback in this request
    fetched,            \* renderer log: what /api/scrape served, in order
    shots,              \* renderer log: pages asked of /api/screenshot, in order
    cooled,             \* per page loop: its sleep has run since its last fetch
    main_pc             \* main(): "idle" | "extract" | "ocr" | "done" | "raised"

VARIABLES
    \* the page loops (complete_page_scraper.py, main_scraper.py) and the
    \* PaginationHandler they share a session with (pagination_handler.py)
    max_pages,
    cps_pc,             \* _scrape_paginated_pages: "idle" | "loop" | "calling" | "done"
    current_page,       \* current_page of _scrape_paginated_pages
    all_products,
    ss_pc,              \* scrape_site: "idle" | "loop" | "final" | "done"
    current_url,        \* a url of Urls, or NoUrl for Python's None
    page_count,
    all_content,
    structured_rows,    \* len(all_structured_data)
    pagination_type,
    has_more,           \* PaginationHandler.has_more
    ph_current_page,    \* PaginationHandler.current_page
    orch_result,        \* the dict the loop returns
    exc_at              \* number of the fetch whose exception reached the loop's handler, 0 if none

sdvars == <<driver, sd_pc, scroll_count, screenshots_taken, new_height,
            final_height, mark, cycle, growths>>

epvars == <<is_travel, url_page, num_pages, ep_pc, page_num, ep_products, ep_result>>

ocrvars == <<ocr_pc, ocr_from, ocr_page, ocr_products, ocr_result, ocr_reply, ocr_calls>>

logvars == <<fetched, shots, cooled>>

VARIABLES
    \* AIContentParser.analyze_content (ai_parser.py)
    ai_pc,              \* "idle" | "done"
    ai_has_key,         \* self.api_key is set
    ai_reply,           \* the oracle's reply
    ai_req,             \* the kinds of data the requirements text asks for
    ai_page,            \* how many matches of each kind the page holds
    ai_result           \* the dict returned: len(data) and the extraction method

aivars == <<ai_pc, ai_has_key, ai_reply, ai_req, ai_page, ai_result>>

VARIABLES
    \* the Flask front end (frontend.py)
    clock,              \* int(time.time()), in seconds
    tasks,              \* the ScrapingTask objects created so far, by identity
    scraping_tasks,     \* the global dict: task_id -> ScrapingTask object
    task_queue,         \* the global queue of ScrapingTask objects
    submitted,          \* per start_scraping call: the task_id answered, the object
    worker_pc,          \* background_worker: "idle" | "running"
    worker_task         \* the object run_scraping_task is working on (0: none)

frontvars == <<clock, tasks, scraping_tasks, task_queue, submitted, worker_pc,
               worker_task>>

VARIABLES
    \* the renderer, GET /api/scrape of backend_proxy.py
    proxy_pc,           \* "idle" | "loop" | "done"
    retry_count,
    attempt_log,        \* the outcome of each page.goto attempt of the request
    waits,              \* the seconds slept between attempts, in order
    proxy_response      \* the JSON body answered

proxyvars == <<proxy_pc, retry_count, attempt_log, waits, proxy_response>>

VARIABLES
    \* CompletePageScraper.scrape_all_pages (complete_page_scraper.py)
    sap_pc,             \* "idle" | "paginated" | "scrolling" | "scroll_call" |
                        \* "single_call" | "done" | "raised"
    detect_in,          \* the page _detect_page_type was given
    page_type,          \* what _detect_page_type returned ("none": not yet)
    sis_count           \* scroll_count of _scrape_infinite_scroll

sapvars == <<sap_pc, detect_in, page_type, sis_count>>

VARIABLES
    \* one application of a function of the parsers to an input
    fn_pc,              \* "ready" | "done"
    fn_name,            \* which function
    fn_in,              \* its argument
    fn_out              \* its result

fnvars == <<fn_pc, fn_name, fn_in, fn_out>>

\* the flows of the services around the extractor
VARIABLES
    \* OCRScraper.scrape_with_ocr (ocr_scraper.py) and the working directory
    swo_pc,             \* "idle" | "scraping"
    files,              \* numbers n of the scroll_screenshot_n.png files on disk
    swo_calls,          \* calls of scrape_with_ocr that have returned
    swo_report          \* 'screenshots_taken' of the last result (-1: none)

swovars == <<swo_pc, files, swo_calls, swo_report>>

svcvars == <<frontvars, proxyvars, sapvars, fnvars, swovars>>

cpsvars == <<cps_pc, current_page, all_products>>

ssvars == <<ss_pc, current_url, page_count, all_content, structured_rows, pagination_type>>

phvars == <<has_more, ph_current_page>>

orchvars == <<max_pages, cpsvars, ssvars, phvars, orch_result, exc_at>>

vars == <<entry, sdvars, epvars, ocrvars, logvars, main_pc, orchvars, aivars, svcvars>>

\* ========================================================================
\* Scroll drivers: WebScraper._handle_infinite_scroll (Playwright) and
\* WebScraper._handle_selenium_scroll (Selenium)
\* ========================================================================
Heights == 1..MaxHeight
Offsets == 0..MaxHeight
Viewports == 1..MaxHeight

\* current_scroll_y + viewport_height >= new_height
AtBottom(y, vh, h) == y + vh >= h

\* final_height > new_height
ContentGrew(fh, nh) == fh > nh

ScrollLimitOffByOne(n) == n > MaxScrolls

\* scroll_count >= 50
ScrollLimitReached(n) == n >= MaxScrolls

InitScrollVars ==
    /\ sd_pc = "start"
    /\ scroll_count = 0
    /\ screenshots_taken = 0
    /\ new_height = 0
    /\ final_height = 0
    /\ mark = <<>>
    /\ cycle = <<>>
    /\ growths = 0

\* counters set to zero, the initial screenshot taken
SdBegin(d) ==
    /\ driver = d
    /\ sd_pc = "start"
    /\ scroll_count' = 0
    /\ screenshots_taken' = 1
    /\ sd_pc' = "scroll"
    /\ growths' = 0
    /\ UNCHANGED <<driver, new_height, final_height, mark, cycle>>

\* one scroll by a viewport, the screenshot after it, the bottom test
SdScroll(d) ==
    /\ driver = d
    /\ sd_pc = "scroll"
    /\ scroll_count' = scroll_count + 1
    /\ screenshots_taken' = screenshots_taken + 1
    /\ \E h \in Heights, y \in Offsets, vh \in Viewports :
          /\ new_height' = h
          /\ sd_pc' = IF AtBottom(y, vh, h) THEN "grace" ELSE "limit"
    /\ cycle' = IF mark # <<>>
                THEN <<scroll_count' - mark[1], screenshots_taken' - mark[2]>>
                ELSE <<>>
    /\ mark' = <<>>
    /\ UNCHANGED <<driver, final_height, growths>>

\* faulty variant: the loop is not left when the height has not grown
SdGraceNoBreak(d) ==
    /\ driver = d
    /\ sd_pc = "grace"
    /\ \E fh \in Heights :
          /\ final_height' = fh
          /\ IF ContentGrew(fh, new_height)
             THEN /\ screenshots_taken' = screenshots_taken + 1
                  /\ mark' = <<scroll_count, screenshots_taken>>
                  /\ growths' = growths + 1
             ELSE UNCHANGED <<screenshots_taken, mark, growths>>
          /\ sd_pc' = "limit"
    /\ UNCHANGED <<driver, scroll_count, new_height, cycle>>

\* faulty variant: no screenshot of the new content
SdGraceNoShot(d) ==
    /\ driver = d
    /\ sd_pc = "grace"
    /\ \E fh \in Heights :
          /\ final_height' = fh
          /\ IF ContentGrew(fh, new_height)
             THEN /\ mark' = <<scroll_count, screenshots_taken>>
                  /\ growths' = growths + 1
                  /\ sd_pc' = "limit"
             ELSE /\ sd_pc' = "done"
                  /\ UNCHANGED <<mark, growths>>
    /\ UNCHANGED <<driver, scroll_count, screenshots_taken, new_height, cycle>>

\* the 10 second wait at the bottom and the second height measurement
SdGrace(d) ==
    /\ driver = d
    /\ sd_pc = "grace"
    /\ \E fh \in Heights :
          /\ final_height' = fh
          /\ IF ContentGrew(fh, new_height)
             THEN /\ screenshots_taken' = screenshots_taken + 1
                  /\ mark' = <<scroll_count, screenshots_taken>>
                  /\ growths' = growths + 1
                  /\ sd_pc' = "limit"
             ELSE /\ sd_pc' = "done"
                  /\ UNCHANGED <<screenshots_taken, mark, growths>>
    /\ UNCHANGED <<driver, scroll_count, new_height, cycle>>

\* the safety check that ends each pass of the loop
SdLimit(d) ==
    /\ driver = d
    /\ sd_pc = "limit"
    /\ sd_pc' = IF ScrollLimitReached(scroll_count) THEN "done" ELSE "scroll"
    /\ UNCHANGED <<driver, scroll_count, screenshots_taken, new_height,
                   final_height, mark, cycle, growths>>

\* ========================================================================
\* Records and the shared display and save steps
\* (universal_product_extractor.py)
\* ========================================================================
\* keys of the dict built by _extract_product_data / _extract_travel_data
HtmlFields(travel) ==
    IF travel
    THEN {"index", "type", "title", "price", "original_price", "departure_time",
          "arrival_time", "duration", "operator", "route", "stops", "amenities",
          "rating", "reviews_count", "image_url", "booking_url", "platform"}
    ELSE {"index", "title", "price", "original_price", "discount", "rating",
          "reviews_count", "image_url", "product_url", "availability", "brand",
          "features", "platform"}

\* keys of the dict built from one object of the oracle's array
VisionFields(travel) ==
    {"index", "page_number", "title", "price", "original_price", "discount",
     "rating", "brand", "platform"}
      \cup (IF travel
            THEN {"type", "departure_time", "arrival_time", "duration",
                  "operator", "route", "stops"}
            ELSE {})

\* keys _display_results reads with product[...] from each listed record
DisplayReads(travel) ==
    IF travel
    THEN {"type", "title", "price", "departure_time", "arrival_time",
          "duration", "operator", "route", "stops"}
    ELSE {"title", "price", "original_price", "discount", "rating",
          "reviews_count", "brand"}

\* keys _save_structured_data reads with product[...] for the CSV rows
SaveReads(travel) ==
    IF travel
    THEN {"index", "type", "title", "price", "departure_time", "arrival_time",
          "duration", "operator", "route", "stops", "image_url", "booking_url"}
    ELSE {"index", "title", "price", "original_price", "discount", "rating",
          "reviews_count", "brand", "image_url", "product_url"}

\* the records the HTML parsers return for a page with n accepted containers,
\* after extract_products has set page_number on each
HtmlRecords(n, p, travel) ==
    [i \in 1..n |-> [index |-> i, page_number |-> p,
                     fields |-> HtmlFields(travel) \cup {"page_number"}]]

Min(a, b) == IF a < b THEN a ELSE b

\* _display_results raises KeyError: one of the first 10 records lacks a key
DisplayRaises(products, travel) ==
    \E i \in 1..Min(Len(products), 10) :
        ~(DisplayReads(travel) \subseteq products[i].fields)

\* _save_structured_data raises KeyError: a record lacks a key of the CSV row
SaveRaises(products, travel) ==
    \E i \in 1..Len(products) : ~(SaveReads(travel) \subseteq products[i].fields)

\* what a call gives its caller: kind "summary" is the summary dict, kind
\* "None" is Python's None and kind "raised" is an exception leaving the call
Summary(products, pages, method) ==
    [kind |-> "summary", total_products |-> Len(products), total_pages |-> pages,
     products |-> products, extraction_method |-> method]

NoResult(k) ==
    [kind |-> k, total_products |-> 0, total_pages |-> 0,
     products |-> <<>>, extraction_method |-> "none"]

NoneResult == NoResult("None")

Raised == NoResult("raised")

\* ========================================================================
\* The oracle's replies and UniversalProductExtractor._parse_screenshot_with_openai
\* ========================================================================
\* no_client: self.openai_client is None; error: the API call raised;
\* no_json: no [...] in the text; malformed: json.loads fails on the match;
\* non_objects: a JSON array whose elements are not objects; array: n objects
Replies ==
    [kind : {"no_client", "error", "no_json", "malformed", "non_objects"}, n : {0}]
      \cup [kind : {"array"}, n : 0..MaxReplyLen]

NoReply == [kind |-> "none", n |-> 0]

\* faulty variant: text that json.loads rejects is kept as one record
ParseScreenshotKeepsText(reply, p, travel) ==
    IF reply.kind \in {"array", "malformed"}
    THEN [i \in 1..(IF reply.kind = "array" THEN reply.n ELSE 1) |->
             [index |-> i, page_number |-> p, fields |-> VisionFields(travel)]]
    ELSE <<>>

ParseScreenshotWithOpenai(reply, p, travel) ==
    IF reply.kind = "array"
    THEN [i \in 1..reply.n |-> [index |-> i, page_number |-> p,
                                fields |-> VisionFields(travel)]]
    ELSE <<>>

\* ========================================================================
\* UniversalProductExtractor.extract_products
\* ========================================================================
PageSizes == {0, 1, 10}

\* what GET /api/scrape does for one page: the request times out (60 s), it
\* answers after more than 45 s, it answers with a non-200 status, another
\* exception is raised (connection error, undecodable body), or it answers 200
\* with a page on which the parser accepts n containers
RenderOutcomes ==
    [status : {"timeout", "slow", "non200", "error"}, n : {0}]
      \cup [status : {"ok"}, n : PageSizes]

\* what input() gives at a prompt: yes, no, or EOFError (no terminal)
Answers == {"y", "n", "eof"}

\* _get_page_url: page 1 is the url as given; another page replaces or adds
\* the page parameter
GetPageUrl(base_page, n) == IF n = 1 THEN base_page ELSE n

\* the prompt in the handler of the outer try of extract_products
OuterPrompt(a2) ==
    CASE a2 = "y" -> "ocr"
      [] a2 = "n" -> "none"
      [] OTHER -> "raise"

\* a prompt inside the try: an EOFError there is caught by the outer handler
InnerPrompt(a1, a2) ==
    CASE a1 = "y" -> "ocr"
      [] a1 = "n" -> "none"
      [] OTHER -> OuterPrompt(a2)

\* what one pass of the page loop leads to
PageDecision(out, a1, a2) ==
    CASE out.status \in {"timeout", "slow", "non200"} -> InnerPrompt(a1, a2)
      [] out.status = "error" -> OuterPrompt(a2)
      [] out.n = 0 -> InnerPrompt(a1, a2)
      [] OTHER -> "continue"

InitExtractVars ==
    /\ url_page = 0
    /\ num_pages = 1
    /\ ep_pc = "idle"
    /\ page_num = 1
    /\ ep_products = <<>>
    /\ ep_result = NoneResult
    /\ ocr_pc = "idle"
    /\ ocr_from = None
    /\ ocr_page = 1
    /\ ocr_products = <<>>
    /\ ocr_result = NoneResult
    /\ ocr_reply = NoReply
    /\ ocr_calls = 0
    /\ fetched = <<>>
    /\ shots = <<>>
    /\ cooled = [ep |-> FALSE, ocr |-> FALSE, cps |-> FALSE, site |-> FALSE]
    /\ main_pc = "idle"

OrchResult(pages, products) ==
    [total_pages |-> pages, total_products |-> Len(products), products |-> products]

NoUrl == [page |-> 0 - 1, next |-> FALSE]

\* PaginationHandler.__init__ and the locals of the two page loops
InitOrchVars ==
    /\ max_pages = 1
    /\ cps_pc = "idle"
    /\ current_page = 1
    /\ all_products = <<>>
    /\ ss_pc = "idle"
    /\ current_url = NoUrl
    /\ page_count = 0
    /\ all_content = <<>>
    /\ structured_rows = 0
    /\ pagination_type = "auto"
    /\ has_more = TRUE
    /\ ph_current_page = 1
    /\ orch_result = OrchResult(0, <<>>)
    /\ exc_at = 0

\* the call extract_with_ocr_fallback(url, num_pages): a fresh all_products
CallOcr(from) ==
    /\ ocr_pc' = "loop"
    /\ ocr_from' = from
    /\ ocr_page' = 1
    /\ ocr_products' = <<>>
    /\ ocr_result' = NoneResult
    /\ ocr_reply' = NoReply
    /\ ocr_calls' = ocr_calls + 1

\* how a pass of the loop, or the summary step, ends
EpLeave(decision) ==
    CASE decision = "ocr" ->
            /\ CallOcr("extract")
            /\ ep_pc' = "ocr"
            /\ UNCHANGED ep_result
      [] decision = "none" ->
            /\ ep_pc' = "returned"
            /\ ep_result' = NoneResult
            /\ UNCHANGED ocrvars
      [] OTHER ->
            /\ ep_pc' = "returned"
            /\ ep_result' = Raised
            /\ UNCHANGED ocrvars

SleepsBeforeNextButLast(page, pages) == page + 1 < pages

\* "if page_num < num_pages: time.sleep(2)" at the end of a pass
SleepsBeforeNext(page, pages) == page < pages

\* the body of one pass of "for page_num in range(1, num_pages + 1)", given
\* what the GET can lead to
EpPageBody(outs) ==
    \E out \in outs, a1 \in Answers, a2 \in Answers :
          LET d == PageDecision(out, a1, a2) IN
          /\ fetched' = Append(fetched, [page |-> GetPageUrl(url_page, page_num),
                                        status |-> out.status, n |-> out.n])
          /\ ep_products' = IF out.status = "ok"
                            THEN ep_products \o HtmlRecords(out.n, page_num, is_travel)
                            ELSE ep_products
          /\ IF d = "continue"
             THEN /\ IF page_num < num_pages
                     THEN page_num' = page_num + 1 /\ ep_pc' = "loop"
                     ELSE page_num' = page_num /\ ep_pc' = "summary"
                  /\ cooled' = [cooled EXCEPT !.ep = SleepsBeforeNext(page_num, num_pages)]
                  /\ UNCHANGED <<ep_result, ocrvars>>
             ELSE /\ EpLeave(d)
                  /\ cooled' = [cooled EXCEPT !.ep = FALSE]
                  /\ UNCHANGED page_num

\* one pass of the page loop, the renderer seen from outside
EpPage ==
    /\ ep_pc = "loop"
    /\ EpPageBody(RenderOutcomes)
    /\ UNCHANGED <<entry, sdvars, is_travel, url_page, num_pages, shots, main_pc, orchvars, aivars, svcvars>>

\* the summary, _display_results and _save_structured_data after the loop
EpSummary ==
    /\ ep_pc = "summary"
    /\ IF DisplayRaises(ep_products, is_travel) \/ SaveRaises(ep_products, is_travel)
       THEN \E a2 \in Answers : EpLeave(OuterPrompt(a2))
       ELSE /\ ep_pc' = "returned"
            /\ ep_result' = Summary(ep_products, num_pages, "html")
            /\ UNCHANGED ocrvars
    /\ UNCHANGED <<entry, sdvars, is_travel, url_page, num_pages, page_num,
                   ep_products, logvars, main_pc, orchvars, aivars, svcvars>>

\* "return self.extract_with_ocr_fallback(url, num_pages)"
EpOcrReturn ==
    /\ ep_pc = "ocr"
    /\ ocr_pc = "returned"
    /\ ocr_from = "extract"
    /\ ep_pc' = "returned"
    /\ ep_result' = ocr_result
    /\ ocr_pc' = "idle"
    /\ UNCHANGED <<entry, sdvars, is_travel, url_page, num_pages, page_num,
                   ep_products, ocr_from, ocr_page, ocr_products, ocr_result,
                   ocr_reply, ocr_calls, logvars, main_pc, orchvars, aivars, svcvars>>

\* ========================================================================
\* UniversalProductExtractor.extract_with_ocr_fallback
\* ========================================================================
\* one pass of the screenshot loop: _take_screenshot, then the oracle
OcrPage ==
    /\ ocr_pc = "loop"
    /\ shots' = Append(shots, GetPageUrl(url_page, ocr_page))
    /\ \E shot_ok \in BOOLEAN, reply \in Replies :
          LET products == ParseScreenshotWithOpenai(reply, ocr_page, is_travel) IN
          /\ ocr_reply' = IF shot_ok THEN reply ELSE NoReply
          /\ ocr_products' = IF shot_ok THEN ocr_products \o products
                             ELSE ocr_products
          /\ IF ~shot_ok /\ ocr_page = 1
             THEN /\ ocr_pc' = "returned"
                  /\ ocr_result' = NoneResult
                  /\ cooled' = [cooled EXCEPT !.ocr = FALSE]
                  /\ UNCHANGED ocr_page
             ELSE /\ IF ocr_page < num_pages
                     THEN ocr_page' = ocr_page + 1 /\ ocr_pc' = "loop"
                     ELSE ocr_page' = ocr_page /\ ocr_pc' = "summary"
                  /\ cooled' = [cooled EXCEPT !.ocr = SleepsBeforeNext(ocr_page, num_pages)]
                  /\ UNCHANGED ocr_result
    /\ UNCHANGED <<entry, sdvars, epvars, ocr_from, ocr_calls, fetched, main_pc, orchvars, aivars, svcvars>>

\* the summary, _display_results and _save_structured_data after the loop;
\* "except Exception" turns a KeyError of either into None
OcrSummary ==
    /\ ocr_pc = "summary"
    /\ ocr_pc' = "returned"
    /\ ocr_result' =
          IF DisplayRaises(ocr_products, is_travel) \/ SaveRaises(ocr_products, is_travel)
          THEN NoneResult
          ELSE Summary(ocr_products, num_pages, "ocr")
    /\ UNCHANGED <<entry, sdvars, epvars, ocr_from, ocr_page, ocr_products,
                   ocr_reply, ocr_calls, logvars, main_pc, orchvars, aivars, svcvars>>

\* ========================================================================
\* The Flask front end (frontend.py): start_scraping, the background worker
\* and the status and result queries
\* ========================================================================
\* module level: scraping_tasks = {}, task_queue = queue.Queue()
InitFrontVars ==
    /\ clock = 0
    /\ tasks = <<>>
    /\ scraping_tasks = <<>>
    /\ task_queue = <<>>
    /\ submitted = <<>>
    /\ worker_pc = "idle"
    /\ worker_task = 0

\* no request is being rendered
NoResponse == [status |-> "none", retries |-> 0]

InitProxyVars ==
    /\ proxy_pc = "idle"
    /\ retry_count = 0
    /\ attempt_log = <<>>
    /\ waits = <<>>
    /\ proxy_response = NoResponse

InitSapVars ==
    /\ sap_pc = "idle"
    /\ detect_in = [fetch |-> "none", text |-> {}]
    /\ page_type = "none"
    /\ sis_count = 0

\* no function is being applied
InitFnVars ==
    /\ fn_pc = "done"
    /\ fn_name = "none"
    /\ fn_in = <<>>
    /\ fn_out = <<>>

InitSwoVars ==
    /\ swo_pc = "idle"
    /\ files = {}
    /\ swo_calls = 0
    /\ swo_report = 0 - 1

InitSvcVars ==
    /\ InitSwoVars
    /\ InitFrontVars
    /\ InitProxyVars
    /\ InitSapVars
    /\ InitFnVars

\* ========================================================================
\* AIContentParser.analyze_content, _ai_extract and _fallback_extract
\* ========================================================================
\* the kinds of data _fallback_extract looks for when the requirements name them
Categories == {"price", "product", "rating", "location"}

\* the oracle's reply to _ai_extract: the call raised; the text holds no
\* {...}; json.loads fails on the match; or the match is an object whose data
\* array holds n items
AiReplies ==
    [kind : {"error", "no_json", "malformed"}, n : {0}]
      \cup [kind : {"object"}, n : 0..MaxReplyLen]

RECURSIVE SumOver(_, _)
SumOver(f, S) ==
    IF S = {} THEN 0
    ELSE LET c == CHOOSE x \in S : TRUE IN f[c] + SumOver(f, S \ {c})

\* _fallback_extract: the pattern matches of every kind the requirements name
FallbackExtract(req, page) ==
    [data_len |-> SumOver(page, req), method |-> "fallback"]

\* _ai_extract
AiExtract(reply, req, page) ==
    CASE reply.kind = "error" -> FallbackExtract(req, page)
      [] reply.kind = "no_json" -> [data_len |-> 0, method |-> "ai_fallback"]
      [] reply.kind = "malformed" -> [data_len |-> 0, method |-> "ai_json_error"]
      [] OTHER -> [data_len |-> reply.n, method |-> "ai"]

\* analyze_content
AnalyzeContent ==
    /\ entry = "ai"
    /\ ai_pc = "idle"
    /\ ai_pc' = "done"
    /\ \E key \in BOOLEAN, reply \in AiReplies, req \in SUBSET Categories,
          page \in [Categories -> 0..1] :
          /\ ai_has_key' = key
          /\ ai_reply' = reply
          /\ ai_req' = req
          /\ ai_page' = page
          /\ ai_result' = IF key THEN AiExtract(reply, req, page)
                          ELSE FallbackExtract(req, page)
    /\ UNCHANGED <<entry, sdvars, epvars, ocrvars, logvars, main_pc, orchvars, svcvars>>

InitAiVars ==
    /\ ai_pc = "idle"
    /\ ai_has_key = FALSE
    /\ ai_reply = [kind |-> "none", n |-> 0]
    /\ ai_req = {}
    /\ ai_page = [c \in Categories |-> 0]
    /\ ai_result = [data_len |-> 0, method |-> "none"]

\* ========================================================================
\* main() of universal_product_extractor.py: one request
\* ========================================================================
\* the url and the number of pages are read, extract_products is called
MainStart ==
    /\ entry = "main"
    /\ main_pc = "idle"
    /\ main_pc' = "extract"
    /\ \E np \in 1..MaxNumPages, up \in 0..1 :
          /\ num_pages' = np
          /\ url_page' = up
    /\ ep_pc' = "loop"
    /\ page_num' = 1
    /\ ep_products' = <<>>
    /\ ep_result' = NoneResult
    /\ UNCHANGED <<entry, sdvars, is_travel, ocrvars, logvars, orchvars, aivars, svcvars>>

\* the result of extract_products is looked at
MainAfterExtract ==
    /\ entry = "main"
    /\ main_pc = "extract"
    /\ ep_pc = "returned"
    /\ ep_pc' = "idle"
    /\ IF ep_result.kind = "raised"
       THEN main_pc' = "raised" /\ UNCHANGED ocrvars
       ELSE IF ep_result.kind = "summary" /\ ep_result.total_products = 0
       THEN \E a \in Answers :
               CASE a = "y" -> CallOcr("main") /\ main_pc' = "ocr"
                 [] a = "n" -> main_pc' = "done" /\ UNCHANGED ocrvars
                 [] OTHER -> main_pc' = "raised" /\ UNCHANGED ocrvars
       ELSE main_pc' = "done" /\ UNCHANGED ocrvars
    /\ UNCHANGED <<entry, sdvars, is_travel, url_page, num_pages, page_num,
                   ep_products, ep_result, logvars, orchvars, aivars, svcvars>>

\* the result of main's own call of the fallback is reported
MainAfterOcr ==
    /\ entry = "main"
    /\ main_pc = "ocr"
    /\ ocr_pc = "returned"
    /\ ocr_from = "main"
    /\ ocr_pc' = "idle"
    /\ main_pc' = "done"
    /\ UNCHANGED <<entry, sdvars, epvars, ocr_from, ocr_page, ocr_products,
                   ocr_result, ocr_reply, ocr_calls, logvars, orchvars, aivars, svcvars>>

InitExtract ==
    /\ entry \in {"main", "ai"}
    /\ driver = "playwright"
    /\ InitScrollVars
    /\ is_travel \in BOOLEAN
    /\ InitExtractVars
    /\ InitOrchVars
    /\ InitAiVars
    /\ InitSvcVars

NextExtract ==
    \/ MainStart
    \/ EpPage
    \/ EpSummary
    \/ EpOcrReturn
    \/ OcrPage
    \/ OcrSummary
    \/ MainAfterExtract
    \/ MainAfterOcr
    \/ AnalyzeContent

SpecExtract == InitExtract /\ [][NextExtract]_vars

\* a renderer answer that was a failure, or a page with no record
FailedOrEmpty(f) == f.status # "ok" \/ f.n = 0

\* every element of sequence s occurs in sequence t
AllIn(s, t) == \A i \in 1..Len(s) : \E j \in 1..Len(t) : t[j] = s[i]

\* C4: in extract_products with num_pages > 1, when a page k >= 2 fails or
\* yields no record, the records collected from pages 1..k-1 are part of the
\* result returned to the caller.
C4_PriorPagesKept ==
    (/\ ep_pc = "returned"
     /\ num_pages > 1
     /\ page_num >= 2
     /\ Len(fetched) = page_num
     /\ FailedOrEmpty(fetched[page_num]))
        => (ep_result.kind = "summary" /\ AllIn(ep_products, ep_result.products))

\* an extraction pass gave 0 records on a page the renderer served with 200
ZeroRecordPass == \E i \in 1..Len(fetched) : fetched[i].status = "ok" /\ fetched[i].n = 0

\* C8: a request in which an extraction pass yields 0 records on a rendered
\* page invokes extract_with_ocr_fallback exactly once, and ends by returning.
C8_ExactlyOneFallback ==
    (main_pc \in {"done", "raised"} /\ ZeroRecordPass)
        => (ocr_calls = 1 /\ main_pc = "done")

\* C9: when the oracle's replies held n >= 1 objects, extract_with_ocr_fallback
\* returns a summary, not None, whose products are those records.
C9_VisionResultUsable ==
    (ocr_pc = "returned" /\ Len(ocr_products) >= 1)
        => (ocr_result.kind = "summary" /\ ocr_result.products = ocr_products)

\* the oracle call failed, its reply held no JSON, or the JSON was malformed
OracleFailure == {"error", "no_json", "malformed"}

\* a pass of the screenshot loop whose oracle reply is a failure adds no
\* record, raises nothing and leaves the loop at the next page (or, after the
\* last page, at the summary)
VisionFailureSkipsPage ==
    [][(ocr_pc = "loop" /\ ocr_reply'.kind \in OracleFailure)
          => /\ ocr_products' = ocr_products
             /\ IF ocr_page < num_pages
                THEN ocr_page' = ocr_page + 1 /\ ocr_pc' = "loop"
                ELSE ocr_pc' = "summary"]_vars

\* C10 as stated: on an oracle failure, a reply without JSON or malformed
\* JSON, the parsing step (_parse_screenshot_with_openai and
\* AIContentParser._ai_extract) raises nothing and yields an empty record set,
\* and the page loop goes on to the next page.
C10_FailureYieldsEmpty ==
    /\ VisionFailureSkipsPage
    /\ []((ai_pc = "done" /\ ai_has_key /\ ai_reply.kind \in OracleFailure)
            => ai_result.data_len = 0)

\* C10 amended: as above for _parse_screenshot_with_openai and the page loop;
\* _ai_extract yields an empty record set when the reply holds no JSON or
\* malformed JSON, and when the oracle call itself fails it returns what
\* _fallback_extract finds on the page, which need not be empty.
C10_FailureEmptyOrFallback ==
    /\ VisionFailureSkipsPage
    /\ []((ai_pc = "done" /\ ai_has_key)
            => /\ ai_reply.kind \in {"no_json", "malformed"}
                    => (ai_result.data_len = 0 /\ ai_result.method # "fallback")
               /\ ai_reply.kind = "error"
                    => /\ ai_result.method = "fallback"
                       /\ (ai_result.data_len = 0) =
                             (\A c \in ai_req : ai_page[c] = 0))

\* C10 witness: the oracle call of _ai_extract failed and the fallback found
\* records on the page.
C10_Witness ==
    /\ ai_pc = "done"
    /\ ai_has_key
    /\ ai_reply.kind = "error"
    /\ ai_result.data_len > 0

\* ========================================================================
\* CompletePageScraper._scrape_paginated_pages
\* ========================================================================
\* _construct_page_url on the base url, which _get_base_url stripped of its
\* page parameter: the url of page n carries page=n
ConstructPageUrl(n) == n

CpsGuardOffByOne(cp, mp) == cp <= mp + 1

\* while current_page <= max_pages
CpsLoopGuard(cp, mp) == cp <= mp

\* all_products, current_page and base_url are set up
\* _scrape_paginated_pages is running: called by itself, or by
\* scrape_all_pages for a page of type "pagination"
InPaginatedPages == entry = "cps" \/ (entry = "all" /\ sap_pc = "paginated")

CpsStart ==
    /\ InPaginatedPages
    /\ cps_pc = "idle"
    /\ IF entry = "cps"
       THEN \E mp \in 1..MaxPagesArg : max_pages' = mp
       ELSE UNCHANGED max_pages
    /\ all_products' = <<>>
    /\ current_page' = 1
    /\ cps_pc' = "loop"
    /\ UNCHANGED <<entry, sdvars, epvars, ocrvars, logvars, main_pc, ssvars,
                   phvars, orch_result, exc_at, aivars, svcvars>>

\* the loop test; self.extractor.extract_products(page_url) is called, or the
\* loop is over and the result dict is returned
CpsIterate ==
    /\ InPaginatedPages
    /\ cps_pc = "loop"
    /\ IF CpsLoopGuard(current_page, max_pages)
       THEN /\ cps_pc' = "calling"
            /\ url_page' = ConstructPageUrl(current_page)
            /\ num_pages' = 1
            /\ ep_pc' = "loop"
            /\ page_num' = 1
            /\ ep_products' = <<>>
            /\ ep_result' = NoneResult
            /\ cooled' = [cooled EXCEPT !.cps = FALSE]
            /\ UNCHANGED orch_result
       ELSE /\ cps_pc' = "done"
            /\ orch_result' = OrchResult(current_page - 1, all_products)
            /\ UNCHANGED <<url_page, num_pages, ep_pc, page_num, ep_products, ep_result,
                           cooled>>
    /\ UNCHANGED <<entry, sdvars, is_travel, ocrvars, fetched, shots, main_pc, max_pages,
                   current_page, all_products, ssvars, phvars, exc_at, aivars, svcvars>>

\* faulty variant: the exception handler goes round the loop again
CpsReturnRetry ==
    /\ InPaginatedPages
    /\ cps_pc = "calling"
    /\ ep_pc = "returned"
    /\ ep_pc' = "idle"
    /\ IF ep_result.kind = "raised"
       THEN /\ exc_at' = Len(fetched)
            /\ cps_pc' = "loop"
            /\ UNCHANGED <<all_products, current_page, orch_result, cooled>>
       ELSE IF ep_result.kind = "summary" /\ ep_result.products # <<>>
       THEN /\ all_products' = all_products \o ep_result.products
            /\ current_page' = current_page + 1
            /\ cps_pc' = "loop"
            /\ cooled' = [cooled EXCEPT !.cps = TRUE]
            /\ UNCHANGED <<orch_result, exc_at>>
       ELSE /\ cps_pc' = "done"
            /\ orch_result' = OrchResult(current_page - 1, all_products)
            /\ UNCHANGED <<all_products, current_page, exc_at, cooled>>
    /\ UNCHANGED <<entry, sdvars, is_travel, url_page, num_pages, page_num,
                   ep_products, ep_result, ocrvars, fetched, shots, main_pc, max_pages,
                   ssvars, phvars, aivars, svcvars>>

\* the body of the try after extract_products came back: the products are
\* added and the page counter advanced, or the loop is left (an exception, a
\* None, no products) and the result dict is returned
CpsReturn ==
    /\ InPaginatedPages
    /\ cps_pc = "calling"
    /\ ep_pc = "returned"
    /\ ep_pc' = "idle"
    /\ IF ep_result.kind = "raised"
       THEN /\ exc_at' = Len(fetched)
            /\ cps_pc' = "done"
            /\ orch_result' = OrchResult(current_page - 1, all_products)
            /\ UNCHANGED <<all_products, current_page, cooled>>
       ELSE IF ep_result.kind = "summary" /\ ep_result.products # <<>>
       THEN /\ all_products' = all_products \o ep_result.products
            /\ current_page' = current_page + 1
            /\ cps_pc' = "loop"
            /\ cooled' = [cooled EXCEPT !.cps = TRUE]
            /\ UNCHANGED <<orch_result, exc_at>>
       ELSE /\ cps_pc' = "done"
            /\ orch_result' = OrchResult(current_page - 1, all_products)
            /\ UNCHANGED <<all_products, current_page, exc_at, cooled>>
    /\ UNCHANGED <<entry, sdvars, is_travel, url_page, num_pages, page_num,
                   ep_products, ep_result, ocrvars, fetched, shots, main_pc, max_pages,
                   ssvars, phvars, aivars, svcvars>>

\* ========================================================================
\* PaginationHandler (pagination_handler.py)
\* ========================================================================
\* what detect_pagination_type can find in a page: an element whose class
\* holds "pagination", "pager", "paging" or "page"; one whose class holds
\* "load-more", "loadmore" or "show-more"; a button or link with the text
\* "Load More"; a class holding "infinite-scroll"; a class holding "infinite"
\* otherwise; a class holding "scroll" otherwise; a class holding "lazy-load";
\* a data-infinite attribute; a data-lazy attribute
Markers ==
    {"page_class", "load_more_class", "load_more_button", "infinite_scroll_class",
     "infinite_class", "scroll_class", "lazy_load_class", "data_infinite", "data_lazy"}

\* the three selector lists, tried in this order; [class*="infinite"] and
\* [class*="scroll"] of the second list also match a class "infinite-scroll"
DetectPaginationType(m) ==
    IF "page_class" \in m
    THEN "traditional"
    ELSE IF m \cap {"load_more_class", "load_more_button", "infinite_class",
                    "scroll_class", "infinite_scroll_class"} # {}
    THEN "load_more"
    ELSE IF m \cap {"infinite_scroll_class", "lazy_load_class", "data_infinite",
                    "data_lazy"} # {}
    THEN "infinite_scroll"
    ELSE "unknown"

\* the JSON of an API answer: the request failed, it carries no pagination
\* metadata, or it carries current_page cp and total_pages tp (0: key absent)
ApiResponses ==
    [kind : {"fail", "no_info"}, cp : {0}, tp : {0}]
      \cup [kind : {"info"}, cp : 0..MaxApiPage, tp : 0..MaxApiPage]

HandleApiPaginationOwnPage(cur, resp) ==
    IF resp.kind = "info"
    THEN LET cp == IF resp.cp = 0 THEN cur ELSE resp.cp
             tp == IF resp.tp = 0 THEN 1 ELSE resp.tp
         IN  [has_more |-> cp < tp,
              current_page |-> IF cp < tp THEN cur + 1 ELSE cur]
    ELSE [has_more |-> FALSE, current_page |-> cur]

\* handle_api_pagination: has_more of the answer and the new self.current_page
HandleApiPagination(cur, resp) ==
    IF resp.kind = "info"
    THEN LET cp == IF resp.cp = 0 THEN cur ELSE resp.cp
             tp == IF resp.tp = 0 THEN 1 ELSE resp.tp
         IN  [has_more |-> cp < tp,
              current_page |-> IF cp < tp THEN cp + 1 ELSE cp]
    ELSE [has_more |-> FALSE, current_page |-> cur]

\* ========================================================================
\* AuroraScraper.scrape_site
\* ========================================================================
\* a url: the page number it carries (0: none) and whether it holds "next"
UrlPages == 0..2

Urls == [page : UrlPages, next : BOOLEAN]

\* _is_next_page_link
IsNextPageLink(link, cur) ==
    IF cur.page > 0 /\ link.page > 0
    THEN link.page = cur.page + 1
    ELSE link.next

PaginationArgs == {"auto", "traditional", "load_more", "infinite_scroll", "api"}

\* what _get_next_page_url can return for a type other than "api": the first
\* pagination link of the page that is a next-page link, the url of the page's
\* load-more element, or the same url again
NextPageUrls(pt, cur, more) ==
    CASE pt = "traditional" -> {l \in Urls : IsNextPageLink(l, cur)} \cup {NoUrl}
      [] pt = "load_more" -> Urls \cup {NoUrl}
      [] pt = "infinite_scroll" -> IF more THEN {cur} ELSE {NoUrl}
      [] OTHER -> {NoUrl}

\* the items extract_content_from_page returns for the k-th fetch
ContentItems(n, k) == [i \in 1..n |-> [page |-> k, index |-> i]]

\* what scrape_url and the rest of one pass do: scrape_url raises; the page
\* comes with n content items; or it comes and a later statement raises
SiteOutcomes ==
    [status : {"error"}, n : {0}] \cup [status : {"ok", "late_error"}, n : 0..MaxItems]

\* the PaginationHandler is created, the locals are set up
SsStart ==
    /\ entry = "site"
    /\ ss_pc = "idle"
    /\ \E mp \in 1..MaxSitePages, pt \in PaginationArgs, u \in Urls :
          /\ max_pages' = mp
          /\ pagination_type' = pt
          /\ current_url' = u
    /\ all_content' = <<>>
    /\ structured_rows' = 0
    /\ page_count' = 0
    /\ has_more' = TRUE
    /\ ph_current_page' = 1
    /\ ss_pc' = "loop"
    /\ UNCHANGED <<entry, sdvars, epvars, ocrvars, logvars, main_pc, cpsvars,
                   orch_result, exc_at, aivars, svcvars>>

\* the "api" branch of _get_next_page_url: the same url again, or None
ApiNextPageUrl(api_info, url) == IF api_info.has_more THEN url ELSE NoUrl

\* one pass of "while current_url and page_count < max_pages", or its end
SsIterate ==
    /\ entry = "site"
    /\ ss_pc = "loop"
    /\ IF current_url # NoUrl /\ page_count < max_pages
       THEN \E out \in SiteOutcomes :
              /\ fetched' = Append(fetched, [page |-> current_url.page,
                                            status |-> out.status, n |-> out.n])
              /\ all_content' = all_content \o ContentItems(out.n, Len(fetched) + 1)
              /\ \E t \in (IF out.n > 0 THEN 0..MaxItems ELSE {0}) :
                    structured_rows' = structured_rows + t
              /\ IF out.status # "ok"
                 THEN /\ exc_at' = Len(fetched) + 1
                      /\ ss_pc' = "final"
                      /\ UNCHANGED <<current_url, page_count, pagination_type, phvars>>
                 ELSE /\ \E pt \in (IF page_count = 0 /\ pagination_type = "auto"
                                    THEN {DetectPaginationType(m) : m \in SUBSET Markers}
                                    ELSE {pagination_type}) :
                            /\ pagination_type' = pt
                            /\ IF pt = "api"
                               THEN \E resp \in ApiResponses :
                                      LET r == HandleApiPagination(ph_current_page, resp) IN
                                      /\ ph_current_page' = r.current_page
                                      /\ current_url' = ApiNextPageUrl(r, current_url)
                               ELSE /\ current_url' \in NextPageUrls(pt, current_url, has_more)
                                    /\ UNCHANGED ph_current_page
                      /\ page_count' = page_count + 1
                      /\ ss_pc' = "loop"
                      /\ UNCHANGED <<has_more, exc_at>>
              /\ cooled' = [cooled EXCEPT !.site = out.status = "ok" /\ current_url' # NoUrl]
       ELSE /\ ss_pc' = "final"
            /\ UNCHANGED <<fetched, cooled, current_url, page_count, all_content,
                           structured_rows, pagination_type, phvars, exc_at>>
    /\ UNCHANGED <<entry, sdvars, epvars, ocrvars, shots, main_pc, max_pages,
                   cpsvars, orch_result, aivars, svcvars>>

\* _process_final_data, whose oracle calls catch their own exceptions, and
\* the result dict
SsFinal ==
    /\ entry = "site"
    /\ ss_pc = "final"
    /\ ss_pc' = "done"
    /\ orch_result' = OrchResult(page_count, all_content)
    /\ UNCHANGED <<entry, sdvars, epvars, ocrvars, logvars, main_pc, max_pages,
                   cpsvars, current_url, page_count, all_content, structured_rows,
                   pagination_type, phvars, exc_at, aivars, svcvars>>

InitOrch ==
    /\ entry \in {"cps", "site"}
    /\ driver = "playwright"
    /\ InitScrollVars
    /\ is_travel \in BOOLEAN
    /\ InitExtractVars
    /\ InitOrchVars
    /\ InitAiVars
    /\ InitSvcVars

NextOrch ==
    \/ CpsStart
    \/ CpsIterate
    \/ CpsReturn
    \/ EpPage
    \/ EpSummary
    \/ EpOcrReturn
    \/ OcrPage
    \/ OcrSummary
    \/ SsStart
    \/ SsIterate
    \/ SsFinal

SpecOrch == InitOrch /\ [][NextOrch]_vars

\* the records the i-th fetch of a page loop delivered to the loop
ServedBy(i) ==
    IF entry = "cps"
    THEN IF FailedOrEmpty(fetched[i]) THEN <<>>
         ELSE HtmlRecords(fetched[i].n, 1, is_travel)
    ELSE ContentItems(fetched[i].n, i)

\* the records of the first k fetches, in order
RECURSIVE ServedUpTo(_)
ServedUpTo(k) == IF k = 0 THEN <<>> ELSE ServedUpTo(k - 1) \o ServedBy(k)

\* the number of fetches that delivered at least one record
GoodFetches == Cardinality({i \in 1..Len(fetched) : ~FailedOrEmpty(fetched[i])})

\* C1: after a numbered site served 10 records on each of pages 1, 2, 3 and
\* none on page 4, the session holds exactly 30 records and its has-more
\* flag is false.
C1_ThirtyAndNoMore ==
    (/\ entry = "cps"
     /\ cps_pc = "done"
     /\ Len(fetched) = 4
     /\ \A i \in 1..3 : fetched[i].status = "ok" /\ fetched[i].n = 10
     /\ fetched[4].status = "ok" /\ fetched[4].n = 0)
        => (orch_result.total_products = 30 /\ has_more = FALSE)

\* C2: the numbered loop fetches pages 1, 2, 3, ... in increasing order, every
\* fetch before the last one gave a record (so the loop stopped at the first
\* page without any), it never fetches more than max_pages pages, and the
\* number of pages it reports is the number of pages that gave a record.
C2_NumberedOrder ==
    entry = "cps" =>
        /\ \A i \in 1..Len(fetched) : fetched[i].page = i
        /\ \A i \in 1..(Len(fetched) - 1) : ~FailedOrEmpty(fetched[i])
        /\ Len(fetched) <= max_pages
        /\ cps_pc = "done" => orch_result.total_pages = GoodFetches

\* C2 witness: with max_pages 4 the loop stopped at page 3, which gave no
\* record, and reports 2 pages.
C2_Witness ==
    /\ entry = "cps"
    /\ cps_pc = "done"
    /\ max_pages = 4
    /\ Len(fetched) = 3
    /\ fetched[3].status = "ok" /\ fetched[3].n = 0
    /\ orch_result.total_pages = 2

\* C3: once the fetch or extraction of page k has raised, the loop is left,
\* page k is not fetched again and no later page is fetched, and the result
\* returned holds every record of pages 1..k-1.
C3_ExceptionStopsLoop ==
    exc_at # 0 =>
        /\ Len(fetched) = exc_at
        /\ cps_pc \in {"idle", "done"}
        /\ ss_pc \in {"idle", "final", "done"}
        /\ (cps_pc = "done" \/ ss_pc = "done") =>
              AllIn(ServedUpTo(exc_at - 1), orch_result.products)

\* C3 witness: the call for page 3 raised after pages 1 and 2 had given 10
\* records and 1 record; the 11 records are returned.
C3_Witness ==
    /\ entry = "cps"
    /\ cps_pc = "done"
    /\ exc_at = 3
    /\ orch_result.total_products = 11

\* ========================================================================
\* The specification of the scroll drivers
\* ========================================================================
HandleInfiniteScroll ==
    /\ \/ SdBegin("playwright")
       \/ SdScroll("playwright")
       \/ SdGrace("playwright")
       \/ SdLimit("playwright")
    /\ UNCHANGED <<entry, epvars, ocrvars, logvars, main_pc, orchvars, aivars, svcvars>>

HandleSeleniumScroll ==
    /\ \/ SdBegin("selenium")
       \/ SdScroll("selenium")
       \/ SdGrace("selenium")
       \/ SdLimit("selenium")
    /\ UNCHANGED <<entry, epvars, ocrvars, logvars, main_pc, orchvars, aivars, svcvars>>

InitScroll ==
    /\ entry = "scroll"
    /\ driver \in {"playwright", "selenium"}
    /\ InitScrollVars
    /\ is_travel = FALSE
    /\ InitExtractVars
    /\ InitOrchVars
    /\ InitAiVars
    /\ InitSvcVars

NextScroll ==
    \/ HandleInfiniteScroll
    \/ HandleSeleniumScroll

SpecScroll == InitScroll /\ [][NextScroll]_vars /\ WF_vars(NextScroll)

\* C5: whatever heights and offsets the browser reports, a run of the scroll
\* driver never performs more than 50 scrolls and it terminates.
C5_ScrollBounded == [](scroll_count <= MaxScrolls) /\ <>(sd_pc = "done")

\* C5 witness: the ceiling itself ended a run (the page kept growing).
C5_Witness == sd_pc = "done" /\ scroll_count = MaxScrolls /\ mark # <<>>

\* C6: when the bottom was detected and the height measured after the grace
\* wait is not greater than the one measured before it, the driver stops at
\* once: it is done in the next state, with at most one (in fact no) further
\* scroll.
C6_NoGrowthStops ==
    [][(sd_pc = "grace" /\ final_height' <= new_height)
         => (sd_pc' = "done" /\ scroll_count' <= scroll_count + 1
             /\ screenshots_taken' = screenshots_taken)]_vars

\* C6 witness: heights [h, h] on the first scroll ended the run after 1 scroll.
C6_Witness ==
    sd_pc = "done" /\ scroll_count = 1 /\ final_height = new_height

\* C7 (as stated): between seeing the height grow and the next bottom test
\* the driver does exactly one scroll and takes exactly one screenshot.
C7_OneScrollOneShot == cycle # <<>> => cycle = <<1, 1>>

\* C7 (amended): on growth the driver takes one screenshot of the new content
\* without scrolling; the next bottom test comes after exactly one scroll and
\* two screenshots in all.
C7_OneScrollTwoShots ==
    /\ cycle # <<>> => cycle = <<1, 2>>
    /\ mark # <<>> => (scroll_count = mark[1] /\ screenshots_taken = mark[2] + 1)

\* C7 witness: a bottom test that followed a grown height.
C7_Witness == cycle = <<1, 2>> /\ sd_pc = "grace"

\* ========================================================================
\* The front end's handlers and its worker thread
\* ========================================================================
\* f"task_{int(time.time())}"
TaskId(t) == <<"task", t>>

\* ScrapingTask.__init__
ScrapingTask(task_id, url, mp, use_ocr) ==
    [task_id |-> task_id, url |-> url, max_pages |-> mp, use_ocr |-> use_ocr,
     status |-> "pending", results |-> NoneResult, error |-> FALSE]

\* scraping_tasks[task_id] = task
DictSet(dict, key, value) ==
    [k \in DOMAIN dict \cup {key} |-> IF k = key THEN value ELSE dict[k]]

\* time passes
Tick ==
    /\ entry = "front"
    /\ clock < MaxClock
    /\ clock' = clock + 1
    /\ UNCHANGED <<entry, sdvars, epvars, ocrvars, logvars, main_pc, orchvars, aivars, proxyvars, sapvars, fnvars, swovars,
                   tasks, scraping_tasks, task_queue, submitted, worker_pc, worker_task>>

\* POST /api/start-scraping
StartScraping ==
    /\ entry = "front"
    /\ Len(submitted) < MaxRequests
    /\ \E data_use_ocr \in BOOLEAN, infinite_scroll \in BOOLEAN, url \in 0..1,
          mp \in 1..MaxTaskPages :
          LET use_ocr == IF infinite_scroll THEN TRUE ELSE data_use_ocr
              task_id == TaskId(clock)
              obj     == Len(tasks) + 1
          IN /\ tasks' = Append(tasks, ScrapingTask(task_id, url, mp, use_ocr))
             /\ scraping_tasks' = DictSet(scraping_tasks, task_id, obj)
             /\ task_queue' = Append(task_queue, obj)
             /\ submitted' = Append(submitted, [task_id |-> task_id, obj |-> obj])
    /\ UNCHANGED <<entry, sdvars, epvars, ocrvars, logvars, main_pc, orchvars, aivars, proxyvars, sapvars, fnvars, swovars,
                   clock, worker_pc, worker_task>>

\* background_worker takes a task; run_scraping_task up to the call of
\* extractor.extract_products(url=task.url, num_pages=task.max_pages)
WorkerTake ==
    /\ entry = "front"
    /\ worker_pc = "idle"
    /\ task_queue # <<>>
    /\ LET obj == Head(task_queue) IN
          /\ worker_task' = obj
          /\ tasks' = [tasks EXCEPT ![obj].status = "running"]
          /\ url_page' = tasks[obj].url
          /\ num_pages' = tasks[obj].max_pages
    /\ task_queue' = Tail(task_queue)
    /\ worker_pc' = "running"
    /\ ep_pc' = "loop"
    /\ page_num' = 1
    /\ ep_products' = <<>>
    /\ ep_result' = NoneResult
    /\ UNCHANGED <<entry, sdvars, is_travel, ocrvars, logvars, main_pc, orchvars, aivars, proxyvars, sapvars, fnvars, swovars,
                   clock, scraping_tasks, submitted>>

\* a worker whose loop ends with a task that failed
WorkerFinishStopsOnFailure ==
    /\ entry = "front"
    /\ worker_pc = "running"
    /\ ep_pc = "returned"
    /\ ep_pc' = "idle"
    /\ worker_pc' = IF ep_result.kind = "raised" THEN "stopped" ELSE "idle"
    /\ worker_task' = 0
    /\ tasks' = IF ep_result.kind = "raised"
                THEN [tasks EXCEPT ![worker_task].status = "failed",
                                   ![worker_task].error = TRUE]
                ELSE [tasks EXCEPT ![worker_task].status = "completed",
                                   ![worker_task].results = ep_result]
    /\ UNCHANGED <<entry, sdvars, is_travel, url_page, num_pages, page_num, ep_products,
                   ep_result, ocrvars, logvars, main_pc, orchvars, aivars, proxyvars, sapvars, fnvars, swovars,
                   clock, scraping_tasks, task_queue, submitted>>

\* run_scraping_task after extract_products: the result is stored and the
\* task completed, or the exception is stored and the task failed
WorkerFinish ==
    /\ entry = "front"
    /\ worker_pc = "running"
    /\ ep_pc = "returned"
    /\ ep_pc' = "idle"
    /\ worker_pc' = "idle"
    /\ worker_task' = 0
    /\ tasks' = IF ep_result.kind = "raised"
                THEN [tasks EXCEPT ![worker_task].status = "failed",
                                   ![worker_task].error = TRUE]
                ELSE [tasks EXCEPT ![worker_task].status = "completed",
                                   ![worker_task].results = ep_result]
    /\ UNCHANGED <<entry, sdvars, is_travel, url_page, num_pages, page_num, ep_products,
                   ep_result, ocrvars, logvars, main_pc, orchvars, aivars, proxyvars, sapvars, fnvars, swovars,
                   clock, scraping_tasks, task_queue, submitted>>

\* GET /api/task-status/<task_id>
TaskStatus(task_id) ==
    IF task_id \notin DOMAIN scraping_tasks
    THEN [code |-> 404]
    ELSE LET task == tasks[scraping_tasks[task_id]] IN
         [code |-> 200, task_id |-> task_id, status |-> task.status,
          url |-> task.url, max_pages |-> task.max_pages, use_ocr |-> task.use_ocr]

\* task_results without its test of the status
TaskResultsAnyStatus(task_id) ==
    IF task_id \notin DOMAIN scraping_tasks
    THEN [code |-> 404]
    ELSE [code |-> 200, results |-> tasks[scraping_tasks[task_id]].results]

\* GET /api/task-results/<task_id>
TaskResults(task_id) ==
    IF task_id \notin DOMAIN scraping_tasks
    THEN [code |-> 404]
    ELSE LET task == tasks[scraping_tasks[task_id]] IN
         IF task.status # "completed"
         THEN [code |-> 400]
         ELSE [code |-> 200, results |-> task.results]

InitFront ==
    /\ entry = "front"
    /\ driver = "playwright"
    /\ InitScrollVars
    /\ is_travel = FALSE
    /\ InitExtractVars
    /\ InitOrchVars
    /\ InitAiVars
    /\ InitSvcVars

NextFront ==
    \/ Tick
    \/ StartScraping
    \/ WorkerTake
    \/ EpPage
    \/ EpSummary
    \/ EpOcrReturn
    \/ OcrPage
    \/ OcrSummary
    \/ WorkerFinish

SpecFront == InitFront /\ [][NextFront]_vars

\* C11: a task whose request opted in to the vision path (use_ocr, or
\* infinite_scroll) and that completed with a result got that result from
\* extract_with_ocr_fallback.
C11_OptInUsesVision ==
    \A o \in 1..Len(tasks) :
        (tasks[o].use_ocr /\ tasks[o].status = "completed"
            /\ tasks[o].results.kind = "summary")
        => tasks[o].results.extraction_method = "ocr"

\* C20: every task submitted stays registered under the task_id its
\* submitter was given, and the status and result queries for that id report
\* that task.
C20_TasksStayApart ==
    \A i \in 1..Len(submitted) :
        LET id == submitted[i].task_id
            task == tasks[submitted[i].obj]
        IN /\ id \in DOMAIN scraping_tasks
           /\ scraping_tasks[id] = submitted[i].obj
           /\ TaskStatus(id).status = task.status
           /\ TaskStatus(id).url = task.url
           /\ task.status = "completed" => TaskResults(id).results = task.results

\* ------------------------------------------------------------------------
\* The worker and its queue, with the extractor seen from run_scraping_task:
\* a call that comes back with the summary dict or None, or raises
\* ------------------------------------------------------------------------
ExtractorCall ==
    /\ entry = "front"
    /\ worker_pc = "running"
    /\ ep_pc = "loop"
    /\ ep_pc' = "returned"
    /\ \E n \in 1..MaxItems :
          ep_result' \in {Raised, NoneResult,
                          Summary(HtmlRecords(n, 1, is_travel), num_pages, "html")}
    /\ UNCHANGED <<entry, sdvars, is_travel, url_page, num_pages, page_num,
                   ep_products, ocrvars, logvars, main_pc, orchvars, aivars, svcvars>>

NextWorker ==
    \/ Tick
    \/ StartScraping
    \/ WorkerTake
    \/ ExtractorCall
    \/ WorkerFinish

SpecWorker == InitFront /\ [][NextWorker]_vars

\* POST /api/start-scraping with a body that leaves out use_ocr and
\* infinite_scroll, for a url without a page parameter
SubmitUrl ==
    /\ StartScraping
    /\ LET task == tasks'[Len(tasks')] IN task.url = 0 /\ ~task.use_ocr

NextQueue ==
    \/ Tick
    \/ SubmitUrl
    \/ WorkerTake
    \/ ExtractorCall
    \/ WorkerFinish

\* background_worker is a thread of its own that loops for ever, so a task
\* in the queue is taken and a call that came back is followed by the rest
\* of run_scraping_task; the call itself comes back
SpecQueueFair ==
    /\ InitFront
    /\ [][NextQueue]_vars
    /\ WF_vars(WorkerTake)
    /\ WF_vars(ExtractorCall)
    /\ WF_vars(WorkerFinish)

\* C29: the status of a task starts as pending and only moves from pending
\* to running and from running to completed or failed; at most one task is
\* running at a time; task_results answers with results only for a task
\* whose status is completed.
C29_StatusLifecycle ==
    /\ [](/\ Cardinality({o \in 1..Len(tasks) : tasks[o].status = "running"}) <= 1
          /\ \A id \in DOMAIN scraping_tasks :
                TaskResults(id).code = 200
                    => tasks[scraping_tasks[id]].status = "completed")
    /\ [][/\ \A o \in 1..Len(tasks) :
              tasks'[o].status # tasks[o].status
                  => <<tasks[o].status, tasks'[o].status>>
                        \in {<<"pending", "running">>, <<"running", "completed">>,
                             <<"running", "failed">>}
          /\ \A o \in (Len(tasks) + 1)..Len(tasks') : tasks'[o].status = "pending"]_vars

\* C29 witness: the results of a completed task are given out while a later
\* task is running and its results are refused.
C29_Witness ==
    /\ entry = "front"
    /\ Len(submitted) = 2
    /\ tasks[1].status = "completed"
    /\ tasks[2].status = "running"
    /\ TaskResults(submitted[1].task_id).code = 200
    /\ TaskResults(submitted[2].task_id).code = 400

\* C30: every task put in the queue is taken by the worker and reaches
\* completed or failed, a task queued behind one that failed included.
C30_EveryTaskFinishes ==
    \A o \in 1..MaxRequests :
        /\ (Len(tasks) >= o) ~> (Len(tasks) >= o /\ tasks[o].status # "pending")
        /\ (Len(tasks) >= o)
              ~> (Len(tasks) >= o /\ tasks[o].status \in {"completed", "failed"})

\* C30 witness: the first task failed and the task queued behind it completed.
C30_Witness ==
    /\ entry = "front"
    /\ Len(tasks) = 2
    /\ tasks[1].status = "failed"
    /\ tasks[2].status = "completed"
    /\ worker_pc = "idle"

\* ========================================================================
\* The renderer (backend_proxy.py, GET /api/scrape) and extract_products
\* followed into it
\* ========================================================================
\* what one attempt (launch, goto, waits, content) leads to: an exception,
\* the page, or a page whose title names Cloudflare
AttemptOutcomes == {"fail", "page", "cloudflare"}

RetryAllowedOnceMore(rc) == rc < MaxRetries

\* if retry_count < max_retries - 1
RetryAllowed(rc) == rc < MaxRetries - 1

\* wait_time = 2 ** retry_count
WaitTime(rc) == 2 ^ rc

\* extract_products sends requests.get(self.proxy_url, params={"url": page_url})
EpRequest ==
    /\ entry = "render"
    /\ ep_pc = "loop"
    /\ proxy_pc = "idle"
    /\ ep_pc' = "wait"
    /\ proxy_pc' = "loop"
    /\ retry_count' = 0
    /\ attempt_log' = <<>>
    /\ waits' = <<>>
    /\ proxy_response' = NoResponse
    /\ UNCHANGED <<entry, sdvars, is_travel, url_page, num_pages, page_num, ep_products,
                   ep_result, ocrvars, logvars, main_pc, orchvars, aivars, frontvars, sapvars, fnvars, swovars>>

\* one pass of "while retry_count < max_retries" of scrape_url
ProxyAttempt ==
    /\ proxy_pc = "loop"
    /\ retry_count < MaxRetries
    /\ \E o \in AttemptOutcomes :
          /\ attempt_log' = Append(attempt_log, o)
          /\ IF o = "fail"
             THEN IF RetryAllowed(retry_count)
                  THEN /\ retry_count' = retry_count + 1
                       /\ waits' = Append(waits, WaitTime(retry_count + 1))
                       /\ UNCHANGED <<proxy_pc, proxy_response>>
                  ELSE /\ proxy_response' = [status |-> "error", retries |-> retry_count]
                       /\ proxy_pc' = "done"
                       /\ UNCHANGED <<retry_count, waits>>
             ELSE /\ proxy_response' =
                        [status |-> IF o = "cloudflare" THEN "blocked_by_cloudflare"
                                    ELSE "success",
                         retries |-> 0]
                  /\ proxy_pc' = "done"
                  /\ UNCHANGED <<retry_count, waits>>
    /\ UNCHANGED <<entry, sdvars, epvars, ocrvars, logvars, main_pc, orchvars, aivars,
                   frontvars, sapvars, fnvars, swovars>>

\* what extract_products makes of the renderer's answer, which always comes
\* with HTTP status 200: the "status" field is not read, data.get('content',
\* '') is parsed; an "error" body has no content
Delivered(resp) ==
    IF resp.status = "error"
    THEN {[status |-> "ok", n |-> 0]}
    ELSE [status : {"ok"}, n : PageSizes]

\* the GET returns with the renderer's answer, or requests gives up after 60 s
\* or the answer took more than 45 s; the rest of the pass of the page loop
EpReceive ==
    /\ entry = "render"
    /\ ep_pc = "wait"
    /\ proxy_pc = "done"
    /\ proxy_pc' = "idle"
    /\ EpPageBody(Delivered(proxy_response)
                    \cup [status : {"timeout", "slow"}, n : {0}])
    /\ UNCHANGED <<entry, sdvars, is_travel, url_page, num_pages, shots, main_pc,
                   orchvars, aivars, frontvars, sapvars, fnvars, swovars, retry_count, attempt_log, waits,
                   proxy_response>>

\* a request of num_pages pages
RenderStart ==
    /\ entry = "render"
    /\ ep_pc = "idle"
    /\ fetched = <<>>
    /\ \E np \in 1..MaxRenderPages : num_pages' = np
    /\ ep_pc' = "loop"
    /\ page_num' = 1
    /\ ep_products' = <<>>
    /\ ep_result' = NoneResult
    /\ UNCHANGED <<entry, sdvars, is_travel, url_page, ocrvars, logvars, main_pc,
                   orchvars, aivars, svcvars>>

InitRender ==
    /\ entry = "render"
    /\ driver = "playwright"
    /\ InitScrollVars
    /\ is_travel = FALSE
    /\ InitExtractVars
    /\ InitOrchVars
    /\ InitAiVars
    /\ InitSvcVars

NextRender ==
    \/ RenderStart
    \/ EpRequest
    \/ ProxyAttempt
    \/ EpReceive
    \/ EpSummary
    \/ EpOcrReturn
    \/ OcrPage
    \/ OcrSummary

SpecRender == InitRender /\ [][NextRender]_vars

\* the attempts of the request that failed
FailedAttempts == {k \in 1..Len(attempt_log) : attempt_log[k] = "fail"}

\* C12: one request makes at most 3 navigation attempts; every attempt but
\* the last one failed (the first attempt that succeeds is the last); after
\* failed attempt k = 1, 2 the renderer has slept 2^k seconds; status "error"
\* is answered only after three failed attempts, and an attempt that succeeds
\* is answered with its page.
C12_ThreeAttemptsBackoff ==
    /\ Len(attempt_log) <= 3
    /\ \A k \in 1..(Len(attempt_log) - 1) : attempt_log[k] = "fail"
    /\ Len(waits) = Min(Cardinality(FailedAttempts), 2)
    /\ \A k \in 1..Len(waits) : waits[k] = 2 ^ k
    /\ proxy_response.status = "error"
          => (Len(attempt_log) = 3 /\ Cardinality(FailedAttempts) = 3)
    /\ proxy_response.status \in {"success", "blocked_by_cloudflare"}
          => attempt_log[Len(attempt_log)] # "fail"
    /\ (proxy_pc = "loop" /\ attempt_log # <<>>)
          => attempt_log[Len(attempt_log)] = "fail"

\* C12 witness: two failed attempts, waits of 2 s and 4 s, then the page
C12_Witness ==
    /\ attempt_log = <<"fail", "fail", "page">>
    /\ waits = <<2, 4>>
    /\ proxy_response.status = "success"

\* C13: a renderer answer of status blocked_by_cloudflare or error is a failed
\* fetch for extract_products: the pass that receives it adds no record and
\* leaves the page loop through the prompt, as it does after a timeout.
C13_BlockedIsFailedFetch ==
    [][(/\ ep_pc = "wait"
        /\ proxy_pc = "done"
        /\ proxy_response.status \in {"blocked_by_cloudflare", "error"}
        /\ fetched' # fetched)
          => (ep_products' = ep_products /\ ep_pc' \in {"ocr", "returned"})]_vars

\* ========================================================================
\* The page-type classifiers: PaginationHandler.detect_pagination_type and
\* CompletePageScraper._detect_page_type
\* ========================================================================
\* what the text of a page can hold for _detect_page_type: one of "page",
\* "pagination", "next", "previous" (also as the string of an a, button or
\* div); one of "load more", "show more", "view more", "load additional"; one
\* of "infinite scroll", "auto-load", "lazy load", "scroll to load"
TextMarks == {"page_word", "load_more_text", "infinite_text"}

\* the classification fetch: an exception, a status other than 200, or 200
FetchResults == {"exception", "non200", "ok"}

\* _detect_page_type: only the text of the page is looked at; the words of
\* load_more_buttons are among the pagination_indicators
DetectPageType(fetch, text) ==
    IF fetch # "ok"
    THEN "single_page"
    ELSE IF text \cap {"page_word", "load_more_text"} # {}
    THEN "pagination"
    ELSE IF text \cap {"load_more_text", "infinite_text"} # {}
    THEN "infinite_scroll"
    ELSE "single_page"

\* a page as the two classifiers see it
Pages == [markers : SUBSET Markers, text : SUBSET TextMarks, fetch : FetchResults]

\* both classifiers applied to one page
Classify ==
    /\ fn_pc = "ready"
    /\ fn_name = "classify"
    /\ fn_pc' = "done"
    /\ fn_out' = [handler |-> DetectPaginationType(fn_in.markers),
                  scraper |-> DetectPageType(fn_in.fetch, fn_in.text)]
    /\ UNCHANGED <<entry, sdvars, epvars, ocrvars, logvars, main_pc, orchvars, aivars,
                   frontvars, proxyvars, sapvars, swovars, fn_name, fn_in>>

\* the markers of numbered pagination, of load-more buttons and of infinite
\* scroll (a lazy or auto-loading class name or data attribute)
NumberedMarkers == {"page_class"}

LoadMoreMarkers == {"load_more_class", "load_more_button"}

InfiniteMarkers == {"infinite_scroll_class", "lazy_load_class", "data_infinite", "data_lazy"}

\* C14: a page with numbered-pagination controls is classified traditional
\* (pagination); a page whose only markers are infinite-scroll markers is
\* classified infinite_scroll; load-more markers come between the two.
C14_ClassifierPriority ==
    (fn_name = "classify" /\ fn_pc = "done") =>
        LET m == fn_in.markers IN
        /\ m \cap NumberedMarkers # {} => fn_out.handler = "traditional"
        /\ (m \cap NumberedMarkers = {} /\ m \cap LoadMoreMarkers # {})
              => fn_out.handler = "load_more"
        /\ (m # {} /\ m \subseteq InfiniteMarkers) => fn_out.handler = "infinite_scroll"

\* ========================================================================
\* UniversalProductExtractor._parse_products: from the containers of a page to
\* its product records
\* ========================================================================
\* A container is its serialized subtree: the class or attribute that makes a
\* selector of product_selectors match it (sel: 1 an earlier selector of the
\* list such as '.product', 2 a later one such as '.item'), the title and
\* the price its text carries, whether it holds an img or a link, and the rest
\* of its markup (variant). A page is its containers in document order.
ShortDocs ==
    UNION {[1..n -> [variant : {1, 2}, title : {"", "A"}, price : {"", "1"},
                     sel : SUBSET {1, 2}, link : BOOLEAN]] : n \in 0..MaxShortDoc}

LongDocs ==
    [1..MaxLongDoc -> [variant : {1, 2}, title : {"A"}, price : {"1"},
                       sel : {{1}, {2}}, link : {TRUE}]]

\* soup.select(selector): the matching containers in document order
Select(doc, s) == SelectSeq(doc, LAMBDA c : s \in c.sel)

\* strategy 1: the matches of the selectors are appended selector by selector;
\* the loop ends at the first selector with more than GoodNumber matches
RECURSIVE TrySelectors(_, _, _)
TrySelectors(doc, s, acc) ==
    IF s > NumSelectors
    THEN acc
    ELSE LET containers == Select(doc, s)
         IN  IF Len(containers) > GoodNumber
             THEN acc \o containers
             ELSE TrySelectors(doc, s + 1, acc \o containers)

\* strategy 2: the divs with a price in their text and an img or a link
PricedDivs(doc) == SelectSeq(doc, LAMBDA c : c.price # "" /\ c.link)

\* "remove duplicates while preserving order": one container per str(container)
RECURSIVE UniqueContainers(_)
UniqueContainers(cs) ==
    IF cs = <<>>
    THEN <<>>
    ELSE LET front == UniqueContainers(SubSeq(cs, 1, Len(cs) - 1))
             last == cs[Len(cs)]
         IN  IF \E k \in 1..Len(front) : front[k] = last
             THEN front
             ELSE Append(front, last)

\* _extract_product_data: a record only with a title or a price
RECURSIVE ExtractAll(_, _)
ExtractAll(cs, n) ==
    IF n = 0
    THEN <<>>
    ELSE LET c == cs[n]
         IN  IF c.title # "" \/ c.price # ""
             THEN Append(ExtractAll(cs, n - 1),
                         [index |-> n, title |-> c.title, price |-> c.price])
             ELSE ExtractAll(cs, n - 1)

ParseProducts(doc) ==
    LET selected == TrySelectors(doc, 1, <<>>)
        product_containers == IF selected = <<>> THEN PricedDivs(doc) ELSE selected
        unique_containers == UniqueContainers(product_containers)
    IN  [candidates |-> unique_containers,
         products |-> ExtractAll(unique_containers,
                                 Min(Len(unique_containers), ProductLimit))]

ParseProductsStep ==
    /\ fn_pc = "ready"
    /\ fn_name = "parse_products"
    /\ fn_pc' = "done"
    /\ fn_out' = ParseProducts(fn_in)
    /\ UNCHANGED <<entry, sdvars, epvars, ocrvars, logvars, main_pc, orchvars, aivars,
                   frontvars, proxyvars, sapvars, swovars, fn_name, fn_in>>

\* ========================================================================
\* the rating extractors
\* ========================================================================
\* what re.findall gives for each rating pattern, in the order of the text
MatchValues == {0, 5, RatingCeiling, RatingCeiling + 1}

RatingMatches ==
    [1..NumRatingPatterns -> UNION {[1..n -> MatchValues] : n \in 0..MaxMatches}]

\* _extract_product_data: the first match of the first pattern that matches
RECURSIVE ItemRating(_, _)
ItemRating(m, p) ==
    IF p > NumRatingPatterns
    THEN <<>>
    ELSE IF m[p] # <<>> THEN <<m[p][1]>> ELSE ItemRating(m, p + 1)

\* every match of every pattern, in pattern order
RECURSIVE AllMatches(_, _)
AllMatches(m, p) ==
    IF p > NumRatingPatterns THEN <<>> ELSE m[p] \o AllMatches(m, p + 1)

\* CleanScraper._extract_ratings_universal
RatingsUniversal(m) ==
    LET ratings == SelectSeq(AllMatches(m, 1), LAMBDA v : 0 <= v /\ v <= RatingCeiling)
    IN  SubSeq(ratings, 1, Min(Len(ratings), RatingLimit))

ExtractRatings ==
    /\ fn_pc = "ready"
    /\ fn_name = "rating"
    /\ fn_pc' = "done"
    /\ fn_out' = [item |-> ItemRating(fn_in, 1),
                  universal |-> RatingsUniversal(fn_in)]
    /\ UNCHANGED <<entry, sdvars, epvars, ocrvars, logvars, main_pc, orchvars, aivars,
                   frontvars, proxyvars, sapvars, swovars, fn_name, fn_in>>

\* ========================================================================
\* The functions applied to every input of the bounded sets
\* ========================================================================
\* ------------------------------------------------------------------------
\* Page urls: a url is its query string, the list of its key=value
\* parameters in order (empty: the url has no '?'); the part before the '?'
\* is the same for every url of a run
\* ------------------------------------------------------------------------
Queries ==
    UNION {[1..k -> [key : {"page", "q"}, val : 1..MaxPageParam]] : k \in 0..MaxQueryLen}

\* re.sub(r'page=\d+', f'page={page_num}', base_url): every page parameter
\* gets the number
SubPage(query, n) ==
    [i \in 1..Len(query) |->
        IF query[i].key = "page" THEN [key |-> "page", val |-> n] ELSE query[i]]

\* _get_page_url on the query string: page 1 is the url as given; a url
\* with a page parameter has it replaced, any other url has one added
PageUrl(query, n) ==
    IF n = 1
    THEN query
    ELSE IF \E i \in 1..Len(query) : query[i].key = "page"
         THEN SubPage(query, n)
         ELSE Append(query, [key |-> "page", val |-> n])

\* _get_base_url: the query without its pagination parameters (parse_qs
\* groups the values by key, which keeps the order of the one other key)
GetBaseUrl(query) == SelectSeq(query, LAMBDA prm : prm.key # "page")

\* _construct_page_url on the query string of _get_base_url(url): the page
\* parameter is added after '?' or '&'
ConstructUrl(query, n) == Append(GetBaseUrl(query), [key |-> "page", val |-> n])

InitFunctions ==
    /\ entry = "fn"
    /\ driver = "playwright"
    /\ InitScrollVars
    /\ is_travel = FALSE
    /\ InitExtractVars
    /\ InitOrchVars
    /\ InitAiVars
    /\ InitFrontVars
    /\ InitProxyVars
    /\ InitSapVars
    /\ InitSwoVars
    /\ fn_pc = "ready"
    /\ fn_out = <<>>
    /\ \/ fn_name = "classify" /\ fn_in \in Pages
       \/ fn_name = "parse_products" /\ fn_in \in ShortDocs \cup LongDocs
       \/ fn_name = "rating" /\ fn_in \in RatingMatches
       \/ fn_name = "api" /\ fn_in \in [cur : 1..MaxApiPage, resp : ApiResponses,
                                        url : Urls]
       \/ fn_name = "page_urls" /\ fn_in \in [query : Queries, pages : 2..MaxNumPages]

\* the urls one multi-page run asks for: extract_products(url, pages)
\* through _get_page_url, _scrape_paginated_pages(url, pages) through
\* _get_base_url and _construct_page_url
PageUrlsStep ==
    /\ fn_pc = "ready"
    /\ fn_name = "page_urls"
    /\ fn_pc' = "done"
    /\ fn_out' = [extract |-> [n \in 1..fn_in.pages |-> PageUrl(fn_in.query, n)],
                  paginated |-> [n \in 1..fn_in.pages |-> ConstructUrl(fn_in.query, n)]]
    /\ UNCHANGED <<entry, sdvars, epvars, ocrvars, logvars, main_pc, orchvars, aivars,
                   frontvars, proxyvars, sapvars, swovars, fn_name, fn_in>>

\* _get_next_page_url in "api" mode applied to one API answer
ApiStep ==
    /\ fn_pc = "ready"
    /\ fn_name = "api"
    /\ fn_pc' = "done"
    /\ LET api_info == HandleApiPagination(fn_in.cur, fn_in.resp)
       IN  fn_out' = [has_more |-> api_info.has_more,
                      current_page |-> api_info.current_page,
                      next |-> ApiNextPageUrl(api_info, fn_in.url)]
    /\ UNCHANGED <<entry, sdvars, epvars, ocrvars, logvars, main_pc, orchvars, aivars,
                   frontvars, proxyvars, sapvars, swovars, fn_name, fn_in>>

NextFunctions ==
    \/ ApiStep
    \/ PageUrlsStep
    \/ Classify
    \/ ParseProductsStep
    \/ ExtractRatings

SpecFunctions == InitFunctions /\ [][NextFunctions]_vars

\* the text a container shows
ContainerText(c) == <<c.title, c.price>>

\* C16: N distinct product-like containers with pairwise different text give
\* exactly N candidates, one per container, in document order.
C16_CandidatesInDocumentOrder ==
    (fn_name = "parse_products" /\ fn_pc = "done") =>
        ((/\ \A i \in 1..Len(fn_in) : fn_in[i].sel # {}
          /\ \A i, j \in 1..Len(fn_in) :
                i # j => ContainerText(fn_in[i]) # ContainerText(fn_in[j]))
            => fn_out.candidates = fn_in)

\* C17: no two records of one extraction pass share the same title and price.
C17_NoSharedDedupKey ==
    (fn_name = "parse_products" /\ fn_pc = "done") =>
        \A i, j \in 1..Len(fn_out.products) :
            i # j => <<fn_out.products[i].title, fn_out.products[i].price>>
                        # <<fn_out.products[j].title, fn_out.products[j].price>>

\* C19: no rating an extractor emits (the rating of an item record, an entry
\* of the list the rating parser returns) lies outside 0..10.
C19_RatingsInRange ==
    (fn_name = "rating" /\ fn_pc = "done") =>
        \A r \in {fn_out.item, fn_out.universal} :
            \A k \in 1..Len(r) : 0 <= r[k] /\ r[k] <= 10

\* C18: every record the page loop of _scrape_paginated_pages adds to its
\* result carries index, page_number and platform, and its page_number is
\* the number of the page the loop fetched it from.
C18_RecordsCarryTheirPage ==
    [][(entry = "cps" /\ cps_pc = "calling" /\ all_products' # all_products)
          => \A j \in (Len(all_products) + 1)..Len(all_products') :
                /\ {"index", "page_number", "platform"} \subseteq all_products'[j].fields
                /\ all_products'[j].page_number = current_page]_vars

\* ========================================================================
\* CompletePageScraper.scrape_all_pages and its three ways
\* ========================================================================
SapBranchPaginatedElse(pt) ==
    IF pt = "infinite_scroll" THEN "scrolling" ELSE "paginated"

\* the if / elif / else on page_type
SapBranch(pt) ==
    IF pt = "pagination"
    THEN "paginated"
    ELSE IF pt = "infinite_scroll" THEN "scrolling" ELSE "single_call"

\* self.extractor.extract_products(url) is entered with num_pages = 1
CallExtractor ==
    /\ url_page' = 1
    /\ num_pages' = 1
    /\ ep_pc' = "loop"
    /\ page_num' = 1
    /\ ep_products' = <<>>
    /\ ep_result' = NoneResult

\* scrape_all_pages up to its branch: _detect_page_type fetches the page and
\* reads its words; _scrape_single_page calls the extractor at once
SapDetect ==
    /\ entry = "all"
    /\ sap_pc = "idle"
    /\ \E mp \in 1..MaxPagesArg, f \in FetchResults, t \in SUBSET TextMarks :
          /\ max_pages' = mp
          /\ detect_in' = [fetch |-> f, text |-> t]
          /\ page_type' = DetectPageType(f, t)
          /\ sap_pc' = SapBranch(DetectPageType(f, t))
    /\ IF sap_pc' = "single_call"
       THEN CallExtractor
       ELSE UNCHANGED <<url_page, num_pages, ep_pc, page_num, ep_products, ep_result>>
    /\ all_products' = <<>>
    /\ sis_count' = 0
    /\ UNCHANGED <<entry, sdvars, is_travel, ocrvars, logvars, main_pc, cps_pc,
                   current_page, ssvars, phvars, orch_result, exc_at, aivars,
                   frontvars, proxyvars, fnvars, swovars>>

\* _scrape_single_page after extract_products came back; an exception of
\* extract_products leaves scrape_all_pages too
SspReturn ==
    /\ entry = "all"
    /\ sap_pc = "single_call"
    /\ ep_pc = "returned"
    /\ ep_pc' = "idle"
    /\ IF ep_result.kind = "raised"
       THEN /\ sap_pc' = "raised"
            /\ UNCHANGED orch_result
       ELSE /\ sap_pc' = "done"
            /\ orch_result' = IF ep_result.kind = "summary"
                              THEN OrchResult(1, ep_result.products)
                              ELSE OrchResult(0, <<>>)
    /\ UNCHANGED <<entry, sdvars, is_travel, url_page, num_pages, page_num,
                   ep_products, ep_result, ocrvars, logvars, main_pc, max_pages,
                   cpsvars, ssvars, phvars, exc_at, aivars, frontvars, proxyvars,
                   detect_in, page_type, sis_count, fnvars, swovars>>

\* "while scroll_count < max_scrolls" of _scrape_infinite_scroll: the
\* extractor is called through _scrape_with_scroll, or the dict is returned
\* (total_scrolls in the place of total_pages)
SisIterate ==
    /\ entry = "all"
    /\ sap_pc = "scrolling"
    /\ IF sis_count < max_pages
       THEN /\ sap_pc' = "scroll_call"
            /\ CallExtractor
            /\ UNCHANGED orch_result
       ELSE /\ sap_pc' = "done"
            /\ orch_result' = OrchResult(sis_count, all_products)
            /\ UNCHANGED <<url_page, num_pages, ep_pc, page_num, ep_products, ep_result>>
    /\ UNCHANGED <<entry, sdvars, is_travel, ocrvars, logvars, main_pc, max_pages,
                   cpsvars, ssvars, phvars, exc_at, aivars, frontvars, proxyvars,
                   detect_in, page_type, sis_count, fnvars, swovars>>

\* the body of the try of _scrape_infinite_scroll after the extractor came
\* back: more products than before replace the list and the loop goes on;
\* anything else (no more products, none, None, an exception) breaks
SisReturn ==
    /\ entry = "all"
    /\ sap_pc = "scroll_call"
    /\ ep_pc = "returned"
    /\ ep_pc' = "idle"
    /\ IF /\ ep_result.kind = "summary"
          /\ Len(ep_result.products) > Len(all_products)
       THEN /\ all_products' = ep_result.products
            /\ sis_count' = sis_count + 1
            /\ sap_pc' = "scrolling"
            /\ UNCHANGED orch_result
       ELSE /\ sap_pc' = "done"
            /\ orch_result' = OrchResult(sis_count, all_products)
            /\ UNCHANGED <<all_products, sis_count>>
    /\ UNCHANGED <<entry, sdvars, is_travel, url_page, num_pages, page_num,
                   ep_products, ep_result, ocrvars, logvars, main_pc, max_pages,
                   cps_pc, current_page, ssvars, phvars, exc_at, aivars, frontvars,
                   proxyvars, detect_in, page_type, fnvars, swovars>>

InitAll ==
    /\ entry \in {"all", "site"}
    /\ driver = "playwright"
    /\ InitScrollVars
    /\ is_travel = FALSE
    /\ InitExtractVars
    /\ InitOrchVars
    /\ InitAiVars
    /\ InitSvcVars

NextAll ==
    \/ SapDetect
    \/ SspReturn
    \/ SisIterate
    \/ SisReturn
    \/ CpsStart
    \/ CpsIterate
    \/ CpsReturn
    \/ EpPage
    \/ EpSummary
    \/ EpOcrReturn
    \/ OcrPage
    \/ OcrSummary
    \/ SsStart
    \/ SsIterate
    \/ SsFinal

SpecAll == InitAll /\ [][NextAll]_vars

\* the classification fetch failed, or the page holds none of the words
NoMarkerOrFetchFailed ==
    \/ detect_in.fetch \in {"exception", "non200"}
    \/ detect_in.fetch = "ok" /\ detect_in.text = {}

\* C15: when no marker group matches or the classification fetch fails, the
\* page is handled as a single page: scrape_all_pages calls the extractor for
\* page 1 only, never fetches a second page, and reports at most one page;
\* scrape_site with the type "unknown", or with a first fetch that failed,
\* ends its loop after the first fetch.
C15_SinglePageSemantics ==
    /\ (entry = "all" /\ NoMarkerOrFetchFailed) =>
          /\ page_type = "single_page"
          /\ Len(fetched) <= 1
          /\ \A i \in 1..Len(fetched) : fetched[i].page = 1
          /\ \A i \in 1..Len(shots) : shots[i] = 1
          /\ sap_pc \in {"done", "raised"} => (Len(fetched) = 1 /\ ep_pc = "idle")
          /\ sap_pc = "done" =>
                /\ orch_result.total_pages <= 1
                /\ \A j \in 1..Len(orch_result.products) :
                      orch_result.products[j].page_number = 1
    /\ (entry = "site" /\ pagination_type = "unknown") =>
          /\ Len(fetched) <= 1
          /\ ss_pc \in {"final", "done"} => Len(fetched) = 1
    /\ (entry = "site" /\ Len(fetched) >= 1 /\ fetched[1].status = "error") =>
          (Len(fetched) = 1 /\ ss_pc \in {"final", "done"})

\* a failed classification fetch, one page extracted, its records returned
C15_Witness ==
    /\ entry = "all"
    /\ detect_in.fetch = "exception"
    /\ sap_pc = "done"
    /\ Len(fetched) = 1
    /\ orch_result.total_pages = 1
    /\ orch_result.total_products > 0

\* C21: in load_more and infinite_scroll mode scrape_site fetches a further
\* page only while has_more is true and the iteration before gave at least
\* one new record.
C21_StopsWithoutNewRecords ==
    [][(/\ entry = "site"
        /\ pagination_type \in {"load_more", "infinite_scroll"}
        /\ Len(fetched) >= 1
        /\ fetched' # fetched)
          => (has_more /\ fetched[Len(fetched)].n > 0)]_vars

\* C22 (as stated): at the end of a run of a scroll driver as many
\* screenshot files were written as scroll steps were performed.
C22_OneShotPerScroll == sd_pc = "done" => screenshots_taken = scroll_count

\* C22 (amended): the files of a run are numbered 000, 001, ..., one per
\* screenshot; a run writes one file before its first scroll, one per scroll
\* step, and one more for each grace wait after which the height had grown.
C22_ShotsPerRun ==
    sd_pc # "start" =>
        /\ screenshots_taken = 1 + scroll_count + growths
        /\ growths <= scroll_count

\* C22 witness: a finished run of three scrolls with one grown height.
C22_Witness ==
    sd_pc = "done" /\ scroll_count = 3 /\ growths = 1 /\ screenshots_taken = 5

\* ========================================================================
\* OCRScraper.scrape_with_ocr, called again and again in one working directory
\* ========================================================================
\* scrape_with_ocr is called: scrape_url loads the page and enters the scroll
\* driver, or page.goto raises and the error dict (no count) is returned
SwoCall ==
    /\ entry = "swo"
    /\ swo_pc = "idle"
    /\ swo_calls < MaxCalls
    /\ \E loaded \in BOOLEAN :
          IF loaded
          THEN /\ swo_pc' = "scraping"
               /\ sd_pc' = "start"
               /\ scroll_count' = 0
               /\ screenshots_taken' = 0
               /\ growths' = 0
               /\ mark' = <<>>
               /\ cycle' = <<>>
               /\ new_height' = 0
               /\ final_height' = 0
               /\ UNCHANGED swo_calls
          ELSE /\ swo_calls' = swo_calls + 1
               /\ UNCHANGED <<swo_pc, sd_pc, scroll_count, screenshots_taken, growths,
                              mark, cycle, new_height, final_height>>
    /\ swo_report' = 0 - 1
    /\ UNCHANGED <<entry, driver, epvars, ocrvars, logvars,
                   main_pc, orchvars, aivars, frontvars, proxyvars, sapvars, fnvars,
                   files>>

\* the scroll driver at work inside the call
SwoScroll == swo_pc = "scraping" /\ HandleInfiniteScroll

\* the files scroll_screenshot_000.png, ... of the run are on disk, over those
\* of the same names; the result carries _count_screenshots(), the number of
\* files that glob finds, unless no text was found
SwoReturn ==
    /\ entry = "swo"
    /\ swo_pc = "scraping"
    /\ sd_pc = "done"
    /\ files' = files \cup 0..(screenshots_taken - 1)
    /\ \E text \in BOOLEAN :
          swo_report' = IF text THEN Cardinality(files') ELSE 0 - 1
    /\ swo_calls' = swo_calls + 1
    /\ swo_pc' = "idle"
    /\ UNCHANGED <<entry, sdvars, epvars, ocrvars, logvars, main_pc, orchvars, aivars,
                   frontvars, proxyvars, sapvars, fnvars>>

InitSwo ==
    /\ entry = "swo"
    /\ driver = "playwright"
    /\ InitScrollVars
    /\ is_travel = FALSE
    /\ InitExtractVars
    /\ InitOrchVars
    /\ InitAiVars
    /\ InitSvcVars

NextSwo ==
    \/ SwoCall
    \/ SwoScroll
    \/ SwoReturn

SpecSwo == InitSwo /\ [][NextSwo]_vars

\* C23: the count a call of scrape_with_ocr reports is the number of
\* screenshots the scroll driver took during that call, whatever calls came
\* before it.
C23_ReportIsThisRun ==
    (entry = "swo" /\ swo_pc = "idle" /\ swo_report >= 0)
        => swo_report = screenshots_taken

\* C24: the selectors are tried in list order and none is tried after the
\* first one that gave more than 3 candidates, so every candidate matches
\* that selector or an earlier one; the price-pattern strategy runs only when
\* no selector matched anything.
C24_CascadeStopsAboveThree ==
    (fn_name = "parse_products" /\ fn_pc = "done") =>
        /\ \A s \in 1..NumSelectors :
              (/\ Len(Select(fn_in, s)) > 3
               /\ \A e \in 1..(s - 1) : Len(Select(fn_in, e)) <= 3)
                  => \A k \in 1..Len(fn_out.candidates) :
                        \E e \in 1..s : e \in fn_out.candidates[k].sel
        /\ (\E i \in 1..Len(fn_in) : fn_in[i].sel # {})
              => \A k \in 1..Len(fn_out.candidates) : fn_out.candidates[k].sel # {}

\* ========================================================================
\* The four page loops together: extract_products and its vision fallback
\* under main(), _scrape_paginated_pages and scrape_site
\* ========================================================================
InitLoops ==
    /\ entry \in {"main", "cps", "site"}
    /\ driver = "playwright"
    /\ InitScrollVars
    /\ is_travel = FALSE
    /\ InitExtractVars
    /\ InitOrchVars
    /\ InitAiVars
    /\ InitSvcVars

NextLoops ==
    \/ MainStart
    \/ EpPage
    \/ EpSummary
    \/ EpOcrReturn
    \/ OcrPage
    \/ OcrSummary
    \/ MainAfterExtract
    \/ MainAfterOcr
    \/ CpsStart
    \/ CpsIterate
    \/ CpsReturn
    \/ SsStart
    \/ SsIterate
    \/ SsFinal

SpecLoops == InitLoops /\ [][NextLoops]_vars

\* C25: in each of the four page loops a fetch that is not the first of the
\* loop comes only after the loop's cool-down sleep has run since the fetch
\* before it.
C25_CoolDownBetweenFetches ==
    [][/\ (ep_pc = "loop" /\ fetched' # fetched /\ page_num > 1) => cooled.ep
       /\ (ocr_pc = "loop" /\ shots' # shots /\ ocr_page > 1) => cooled.ocr
       /\ (cps_pc = "loop" /\ cps_pc' = "calling" /\ current_page > 1) => cooled.cps
       /\ (entry = "site" /\ fetched' # fetched /\ page_count > 0) => cooled.site]_vars

\* C25 witness: extract_products has fetched two pages and has slept before
\* the third.
C25_Witness ==
    entry = "main" /\ ep_pc = "loop" /\ Len(fetched) = 2 /\ page_num = 3 /\ cooled.ep

\* the current_page and total_pages an API answer with metadata reports: a
\* missing current_page is the handler's own page, a missing total_pages is 1
ReportedPage(cur, resp) == IF resp.cp = 0 THEN cur ELSE resp.cp

ReportedTotal(resp) == IF resp.tp = 0 THEN 1 ELSE resp.tp

\* C26 (as stated): the same url is asked for again only if the metadata of
\* the API answer reported current_page < total_pages; the handler's own page
\* goes up by one exactly then and is unchanged otherwise.
C26_OwnPagePlusOne ==
    (fn_name = "api" /\ fn_pc = "done") =>
        /\ fn_out.next # NoUrl <=>
              (/\ fn_in.resp.kind = "info"
               /\ ReportedPage(fn_in.cur, fn_in.resp) < ReportedTotal(fn_in.resp))
        /\ fn_out.current_page = IF fn_out.next # NoUrl THEN fn_in.cur + 1 ELSE fn_in.cur

\* C26 (amended): the same url is asked for again only if the metadata
\* reported current_page < total_pages; the handler's page becomes the
\* reported current_page plus one in that case, the reported current_page
\* when the metadata reports no further page, and stays as it was after an
\* answer without metadata or a failed request.
C26_ReportedPagePlusOne ==
    (fn_name = "api" /\ fn_pc = "done") =>
        LET cp == ReportedPage(fn_in.cur, fn_in.resp)
            more == fn_in.resp.kind = "info" /\ cp < ReportedTotal(fn_in.resp)
        IN  /\ fn_out.next # NoUrl <=> more
            /\ more => (fn_out.next = fn_in.url /\ fn_out.current_page = cp + 1)
            /\ (fn_in.resp.kind = "info" /\ ~more) => fn_out.current_page = cp
            /\ fn_in.resp.kind # "info" => fn_out.current_page = fn_in.cur

\* C26 witness: the handler at page 2 is told "page 1 of 2": paging goes on
\* and the handler's page is 2 again.
C26_Witness ==
    /\ fn_name = "api"
    /\ fn_pc = "done"
    /\ fn_in.cur = 2
    /\ fn_in.resp = [kind |-> "info", cp |-> 1, tp |-> 2]
    /\ fn_out.next = fn_in.url
    /\ fn_out.current_page = 2

\* C27: when the last screenshot of a run of extract_with_ocr_fallback has
\* failed, the run has returned None after page 1 alone if that was page 1,
\* and has otherwise gone through all its pages and returns the summary with
\* the records of the other pages.
C27_LaterFailureKeepsRecords ==
    (entry = "main" /\ ocr_pc = "returned" /\ ocr_calls = 1 /\ ocr_reply = NoReply) =>
        IF Len(shots) = 1
        THEN ocr_result.kind = "None"
        ELSE /\ Len(shots) = num_pages
             /\ ocr_result.kind = "summary"
             /\ ocr_result.products = ocr_products

\* C28: the page urls of one multi-page run are pairwise different, whatever
\* the url given, one with a page parameter included.
C28_PageUrlsDiffer ==
    (fn_name = "page_urls" /\ fn_pc = "done") =>
        \A a, b \in 1..fn_in.pages :
            a # b => /\ fn_out.extract[a] # fn_out.extract[b]
                     /\ fn_out.paginated[a] # fn_out.paginated[b]

\* C28 for _scrape_paginated_pages alone
C28_ConstructedUrlsDiffer ==
    (fn_name = "page_urls" /\ fn_pc = "done") =>
        \A a, b \in 1..fn_in.pages : a # b => fn_out.paginated[a] # fn_out.paginated[b]

====
